---- MODULE Spec2Model ----
(***************************************************************************)
(* Model of the SSO concert data pipeline:                                 *)
(*   - the HTML importer (2-sso_import_export_concert_html.py) together    *)
(*     with ProcessSQLite.export_html_to_sqlite_db (sso_utilities/         *)
(*     file_utils.py), specification SpecStore;                            *)
(*   - the calendar JSON merger (1-sso_parse_calendars.py), SpecMerge;     *)
(*   - the calendar key extractor (1-sso_parse_calendars.py), SpecKeys;    *)
(*   - the concert detail parser (3-sso_parse_2018_2021_concerts.py):      *)
(*     the Repertoire class, SpecRepertoire; the ArtistConductor class,    *)
(*     SpecArtists; sso_parse_individual_concerts and main, SpecParse;     *)
(*   - the manual cleaner (4-sso_clean_2018_2021_concerts.py), SpecClean.  *)
(***************************************************************************)
EXTENDS Integers, Sequences, FiniteSets, TLC

VARIABLES
    \* ---- HTML importer / SQLite store --------------------------------
    events,       \* file system: per year, the events directory and its files
    db,           \* the SQLite store file: [exists, names, tables]
    orig,         \* the "<db>.orig.db" backup file, same shape as db
    pc,           \* position of the running call
    mode,         \* "main": importer CLI run, "lib": direct ProcessSQLite call
    args,         \* the arguments of the running call
    yi,           \* main(): index of the year being imported
    master_concert_list, \* main(): records imported so far
    sqlite_df,    \* the dataframe handed to export_html_to_sqlite_db
    year_list,    \* export_html_to_sqlite_db: years still to write, sorted
    reported,     \* main(): the year|key pairs logged by a dry run
    err,          \* where the running call raised ("" while it has not)
    db0,          \* history: db as it was when the running call started
    orig0,        \* history: orig as it was when the running call started
    nbackup,      \* history: number of backup copies made by the running call
    runs,         \* number of calls started so far
    \* ---- calendar JSON merger ---------------------------------------
    old_json_file,        \* the old calendar file: [exists, data, meta]
    new_json_file,        \* the new calendar file: [exists, data, meta]
    merged_json_content,  \* what merge_json_calendars returned
    export_json,          \* the merged calendar file written by main()
    mpc,                  \* position of update_calendar_json
    \* ---- calendar key extractor -------------------------------------
    html_calendar_files,  \* <HtmlYear>/sso_<year>_<Month>.html: [status, rows]
    json_calendar_file,   \* <JsonYear>/sso-concerts-<year>.json
    export_csv,           \* per year, the key CSV at the export path
    old_file,             \* per year, the dated backup of the key CSV
    csv_tempfile,         \* the temporary file of the running export
    kpc,                  \* position of extract_concert_ids
    years_arg,            \* its -y list (args.input_years)
    ki,                   \* index of the year being processed
    calendar_df,          \* the key dataframe of the year being processed
    klog,                 \* per processed year, how the loop body ended
    kfails,               \* number of file operations that have failed
    kruns,                \* number of runs started so far
    \* ---- Repertoire -------------------------------------------------
    repertoire_data,      \* the (piece, composer) pairs given to Repertoire
    composers,            \* Repertoire.composers
    pieces,               \* Repertoire.pieces
    rpc,                  \* "new" before the construction, "built" after it
    \* ---- ArtistConductor --------------------------------------------
    artist_data,          \* the pairs given to ArtistConductor
    conductor,            \* ArtistConductor.conductor
    artists,              \* ArtistConductor.artists
    apc,                  \* "new" before the construction, "built" after it
    \* ---- concert detail parser --------------------------------------
    df_imported_db,       \* the rows loaded from the store: [year, key, html_content]
    ppc,                  \* position of main()
    prow,                 \* sso_parse_individual_concerts: index of the row
    pdate,                \* index of the performance date within the row
    cdate,                \* the performance dates of the row
    parsed_concerts,      \* concert_list: the concert tuples built so far
    raw_table,            \* the table written by main(): [exists, rows]
    perr,                 \* the exception that ended the run ("" if none)
    strategy,             \* history: the parsers used for the row, "" before it
    \* ---- manual cleaner ----------------------------------------------
    sso_raw,              \* the table of the raw pickle file
    sso_composer_map_file,\* the composer name map CSV: [exists, rows]
    sso_cleaned,          \* main()'s sso_cleaned
    cleaned_table,        \* the table written by main(): [exists, rows]
    cpc                   \* position of main()

storeVars == <<events, db, orig, pc, mode, args, yi, master_concert_list,
               sqlite_df, year_list, reported, err, db0, orig0, nbackup, runs>>

mergeVars == <<old_json_file, new_json_file, merged_json_content, export_json, mpc>>

keysVars == <<html_calendar_files, json_calendar_file, export_csv, old_file,
              csv_tempfile, kpc, years_arg, ki, calendar_df, klog, kfails, kruns>>

repertoireVars == <<repertoire_data, composers, pieces, rpc>>

artistVars == <<artist_data, conductor, artists, apc>>

concertVars == <<df_imported_db, ppc, prow, pdate, cdate, parsed_concerts, raw_table,
                 perr, strategy>>

parseVars == <<repertoireVars, artistVars, concertVars>>

cleanVars == <<sso_raw, sso_composer_map_file, sso_cleaned, cleaned_table, cpc>>

vars == <<storeVars, mergeVars, keysVars, parseVars, cleanVars>>

----------------------------------------------------------------------------
(* Program constants, sso_utilities/common.py *)
EARLIEST_SSO_SEASON_YEAR == 2018
LATEST_SSO_SEASON_YEAR == 2024
JSON_CALENDAR_START_YEAR == 2021

(* Bounds of the model *)
MaxRuns == 2        \* calls (importer runs or direct exports) per behaviour
MaxDf == 2          \* rows of a dataframe handed directly to the export
MaxData == 2        \* entries in the data list of a calendar JSON file
MaxCalRows == 2     \* entries in one calendar file of the key extractor
MaxKeyRuns == 2     \* runs of extract_concert_ids per behaviour
MaxIoFailures == 1  \* failing file operations of the CSV export per behaviour

----------------------------------------------------------------------------
(* Generic helpers *)
Range(s) == {s[i] : i \in 1..Len(s)}

SeqsUpTo(S, n) == UNION {[1..k -> S] : k \in 0..n}

SetMin(S) == CHOOSE x \in S : \A y \in S : x <= y
SetMax(S) == CHOOSE x \in S : \A y \in S : x >= y

RECURSIVE SortedSeq(_)
\* sorted(set(...)) over integers
SortedSeq(S) == IF S = {} THEN <<>> ELSE <<SetMin(S)>> \o SortedSeq(S \ {SetMin(S)})

----------------------------------------------------------------------------
(* The file system the importer reads.  A file name is the sequence of its *)
(* dot-separated parts: "a.html" is <<"a","html">>, "b.x.html" is          *)
(* <<"b","x","html">>.  EventFiles lists the names in sorted order.        *)
StoreYears == {2021, 2022}
InputYears == {2021, 2022, 2025}

EventFiles == << <<"a", "html">>, <<"b", "x", "html">> >>
FileStatus == {"absent", "ok", "unreadable"}

NoDir == [dir |-> FALSE, st |-> [f \in Range(EventFiles) |-> "absent"]]

\* the states of one year's events directory
DirStates ==
    {NoDir} \cup {[dir |-> TRUE, st |-> s] : s \in [Range(EventFiles) -> FileStatus]}

\* the file systems the runs start from: a 2021 directory that is complete,
\* lacks a file, holds an unreadable file or is empty, with a 2022 directory
\* that is missing, complete or holds an unreadable file
EventStates ==
    {e \in [StoreYears -> DirStates] :
        /\ e[2021].dir
        /\ \/ e[2021].st[EventFiles[1]] = "ok"
           \/ \A f \in Range(EventFiles) : e[2021].st[f] = "absent"
        /\ \/ e[2022] = NoDir
           \/ /\ e[2022].dir
              /\ e[2022].st[EventFiles[1]] = "ok"
              /\ e[2022].st[EventFiles[2]] \in {"ok", "unreadable"}}

StatusOf(year, file) ==
    IF year \in DOMAIN events /\ events[year].dir /\ file \in DOMAIN events[year].st
    THEN events[year].st[file] ELSE "absent"

\* BeautifulSoup(file): the top-level nodes of the parsed document
load_html(year, file) == << <<"doctype">>, <<"html", year, file>> >>

NoDb == [exists |-> FALSE, names |-> {}, tables |-> [y \in StoreYears |-> <<>>]]

----------------------------------------------------------------------------
(* 2-sso_import_export_concert_html.py: importing the concert HTML files *)

\* DBRecord with html_content taken from contents[0]: a mutant
import_single_concert_first(year, concert_html) ==
    [year |-> year,
     key |-> Head(concert_html),
     html_content |-> load_html(year, concert_html)[1]]

\* DBRecord(year, key=concert_html.name.split(".")[0],
\*          html_content=str(html_content.contents[-1]))
import_single_concert(year, concert_html) ==
    [year |-> year,
     key |-> Head(concert_html),
     html_content |-> load_html(year, concert_html)[Len(load_html(year, concert_html))]]

\* the list of files import_concerts_by_year loads: the named ones, or the
\* sorted glob of "*.html"
html_file_list(year, concert_key_list) ==
    IF concert_key_list # <<>>
    THEN [i \in 1..Len(concert_key_list) |-> Append(concert_key_list[i], "html")]
    ELSE SelectSeq(EventFiles, LAMBDA f : StatusOf(year, f) # "absent")

RECURSIVE ImportLoop(_, _, _, _)
\* the for loop of import_concerts_by_year: the first file that fails to load
\* raises, and the records collected so far are lost with the call
ImportLoop(year, files, idx, concert_record_list) ==
    IF idx > Len(files) THEN [ok |-> TRUE, recs |-> concert_record_list]
    ELSE IF StatusOf(year, files[idx]) # "ok" THEN [ok |-> FALSE, recs |-> <<>>]
    ELSE ImportLoop(year, files, idx + 1,
                    Append(concert_record_list, import_single_concert(year, files[idx])))

import_concerts_by_year(year, concert_key_list) ==
    IF ~(year \in DOMAIN events /\ events[year].dir)
    THEN [ok |-> FALSE, recs |-> <<>>]
    ELSE ImportLoop(year, html_file_list(year, concert_key_list), 1, <<>>)

\* pd.DataFrame([concert.dict() ...]): one row per record, the three DBRecord
\* fields as columns
create_concert_detail_df(concert_record_list) ==
    [i \in 1..Len(concert_record_list) |->
        [year |-> concert_record_list[i].year,
         key |-> concert_record_list[i].key,
         html_content |-> concert_record_list[i].html_content]]

\* validate_sso_input_years without the check of the latest year: a mutant
validate_sso_input_years_no_max(input_years) ==
    /\ input_years # <<>>
    /\ SetMin(Range(input_years)) >= EARLIEST_SSO_SEASON_YEAR

\* common.validate_sso_input_years: TRUE when it returns, FALSE when it raises
validate_sso_input_years(input_years) ==
    /\ input_years # <<>>
    /\ SetMin(Range(input_years)) >= EARLIEST_SSO_SEASON_YEAR
    /\ SetMax(Range(input_years)) <= LATEST_SSO_SEASON_YEAR

\* _validate_sqlite_db_filepath without its else branch: a mutant
validate_sqlite_db_filepath_noelse(db_exists, append_flag) ==
    IF append_flag THEN db_exists ELSE TRUE

\* _validate_sqlite_db_filepath: TRUE when it returns, FALSE when it raises
validate_sqlite_db_filepath(db_exists, append_flag) ==
    IF append_flag THEN db_exists ELSE ~db_exists

\* the "year|key" strings of the dry run
year_key_pairs(concert_df) ==
    [i \in 1..Len(concert_df) |-> <<concert_df[i].year, "|", concert_df[i].key>>]

----------------------------------------------------------------------------
(* sso_utilities/file_utils.py: ProcessSQLite *)

\* year_list = sorted(set(sqlite_df["year"])), descending: a mutant
export_year_list_desc(df) ==
    LET asc == SortedSeq({df[i].year : i \in 1..Len(df)})
    IN  [i \in 1..Len(asc) |-> asc[Len(asc) + 1 - i]]

\* year_list = sorted(set(sqlite_df["year"]))
export_year_list(df) == SortedSeq({df[i].year : i \in 1..Len(df)})

\* to_sql with if_exists="replace" in place of "fail": a mutant
to_sql_replace(store, year, rows, if_exists) ==
    IF year \in store.names /\ if_exists = "append"
    THEN [ok |-> TRUE,
          db |-> [store EXCEPT !.tables[year] = store.tables[year] \o rows]]
    ELSE [ok |-> TRUE,
          db |-> [exists |-> TRUE,
                  names |-> store.names \cup {year},
                  tables |-> [store.tables EXCEPT ![year] = rows]]]

\* DataFrame.to_sql(str(year), if_exists=...): the store after the call and
\* whether the call returned (ok) or raised
to_sql(store, year, rows, if_exists) ==
    IF year \in store.names
    THEN IF if_exists = "fail"
         THEN [ok |-> FALSE, db |-> store]
         ELSE [ok |-> TRUE,
               db |-> [store EXCEPT !.tables[year] = store.tables[year] \o rows]]
    ELSE [ok |-> TRUE,
          db |-> [exists |-> TRUE,
                  names |-> store.names \cup {year},
                  tables |-> [store.tables EXCEPT ![year] = rows]]]

----------------------------------------------------------------------------
(* Arguments *)
\* the -y lists and the -c lists of the runs
YearLists ==
    {<<2021>>, <<2022>>, <<2025>>, <<2021, 2022>>, <<2022, 2021>>, <<2021, 2021>>,
     <<2021, 2025>>}

KeyLists == {<<>>, << <<"a">> >>, << <<"b", "x">> >>}

MainArgs ==
    {[input_years |-> ys, concert_keys |-> ks, append_records |-> ap,
      db_file_name |-> fn, dry_run |-> dr] :
        ys \in YearLists, ks \in KeyLists,
        ap \in BOOLEAN, fn \in BOOLEAN, dr \in BOOLEAN}

NoArgs == [input_years |-> <<>>, concert_keys |-> <<>>, append_records |-> FALSE,
           db_file_name |-> FALSE, dry_run |-> FALSE]

\* the dataframes handed directly to the export: rows of the first event file
LibRows == {import_single_concert(y, EventFiles[1]) : y \in StoreYears}

LibDataFrames == SeqsUpTo(LibRows, MaxDf) \ {<<>>}

----------------------------------------------------------------------------
(* State machine of the importer and the store *)
InitStore ==
    /\ events \in EventStates
    /\ db = NoDb
    /\ orig = NoDb
    /\ pc = "idle"
    /\ mode = "none"
    /\ args = NoArgs
    /\ yi = 1
    /\ master_concert_list = <<>>
    /\ sqlite_df = <<>>
    /\ year_list = <<>>
    /\ reported = <<>>
    /\ err = ""
    /\ db0 = NoDb
    /\ orig0 = NoDb
    /\ nbackup = 0
    /\ runs = 0

\* main(), lines 272-300: argument and store path validation
MainStart(a) ==
    /\ pc = "idle"
    /\ runs < MaxRuns
    /\ (a.db_file_name => a.append_records)
    /\ runs' = runs + 1
    /\ mode' = "main"
    /\ args' = a
    /\ db0' = db
    /\ orig0' = orig
    /\ nbackup' = 0
    /\ LET e == IF ~validate_sso_input_years(a.input_years) THEN "years"
                ELSE IF a.append_records /\ ~a.db_file_name THEN "dbname"
                ELSE IF ~validate_sqlite_db_filepath(db.exists, a.append_records)
                     THEN "path"
                ELSE ""
       IN  /\ err' = e
           /\ pc' = IF e = "" THEN "import" ELSE "failed"
    /\ UNCHANGED <<events, db, orig, yi, master_concert_list, sqlite_df, year_list,
                   reported>>
    /\ UNCHANGED <<mergeVars, keysVars, parseVars, cleanVars>>

\* the import loop writing each year's table as soon as the year is imported:
\* a mutant
ImportYearAndWrite ==
    /\ pc = "import"
    /\ yi <= Len(args.input_years)
    /\ LET r == import_concerts_by_year(args.input_years[yi], args.concert_keys)
       IN  IF r.ok
           THEN /\ master_concert_list' = master_concert_list \o r.recs
                /\ yi' = yi + 1
                /\ db' = IF r.recs = <<>> \/ args.dry_run THEN db
                         ELSE to_sql(db, args.input_years[yi], r.recs, "append").db
                /\ UNCHANGED <<pc, err>>
           ELSE /\ pc' = "failed"
                /\ err' = "import"
                /\ UNCHANGED <<master_concert_list, yi, db>>
    /\ UNCHANGED <<events, orig, mode, args, sqlite_df, year_list, reported,
                   db0, orig0, nbackup, runs>>
    /\ UNCHANGED <<mergeVars, keysVars, parseVars, cleanVars>>

\* main(), lines 304-315: one iteration of the import loop
ImportYear ==
    /\ pc = "import"
    /\ yi <= Len(args.input_years)
    /\ LET r == import_concerts_by_year(args.input_years[yi], args.concert_keys)
       IN  IF r.ok
           THEN /\ master_concert_list' = master_concert_list \o r.recs
                /\ yi' = yi + 1
                /\ UNCHANGED <<pc, err>>
           ELSE /\ pc' = "failed"
                /\ err' = "import"
                /\ UNCHANGED <<master_concert_list, yi>>
    /\ UNCHANGED <<events, db, orig, mode, args, sqlite_df, year_list, reported,
                   db0, orig0, nbackup, runs>>
    /\ UNCHANGED <<mergeVars, keysVars, parseVars, cleanVars>>

\* main() with the export not guarded by the dry-run flag: a mutant
MainExportAlways ==
    /\ pc = "import"
    /\ yi > Len(args.input_years)
    /\ LET concert_df == create_concert_detail_df(master_concert_list)
       IN  IF concert_df = <<>>
           THEN /\ pc' = "done"
                /\ UNCHANGED <<sqlite_df, reported>>
           ELSE /\ reported' = IF args.dry_run THEN year_key_pairs(concert_df)
                               ELSE reported
                /\ sqlite_df' = concert_df
                /\ pc' = "export"
    /\ UNCHANGED <<events, db, orig, mode, args, yi, master_concert_list, year_list,
                   err, db0, orig0, nbackup, runs>>
    /\ UNCHANGED <<mergeVars, keysVars, parseVars, cleanVars>>

\* main(), lines 317-350: build the dataframe, then dry run or export
MainExportOrDryRun ==
    /\ pc = "import"
    /\ yi > Len(args.input_years)
    /\ LET concert_df == create_concert_detail_df(master_concert_list)
       IN  IF concert_df = <<>>
           THEN /\ pc' = "done"
                /\ UNCHANGED <<sqlite_df, reported>>
           ELSE IF args.dry_run
           THEN /\ reported' = year_key_pairs(concert_df)
                /\ pc' = "done"
                /\ UNCHANGED sqlite_df
           ELSE /\ sqlite_df' = concert_df
                /\ pc' = "export"
                /\ UNCHANGED reported
    /\ UNCHANGED <<events, db, orig, mode, args, yi, master_concert_list, year_list,
                   err, db0, orig0, nbackup, runs>>
    /\ UNCHANGED <<mergeVars, keysVars, parseVars, cleanVars>>

\* a direct call ProcessSQLite(db_name).export_html_to_sqlite_db(df, append_flag)
LibExport(df, append_flag) ==
    /\ pc = "idle"
    /\ runs < MaxRuns
    /\ runs' = runs + 1
    /\ mode' = "lib"
    /\ args' = [NoArgs EXCEPT !.append_records = append_flag]
    /\ sqlite_df' = df
    /\ db0' = db
    /\ orig0' = orig
    /\ nbackup' = 0
    /\ pc' = "export"
    /\ UNCHANGED <<events, db, orig, yi, master_concert_list, year_list, reported, err>>
    /\ UNCHANGED <<mergeVars, keysVars, parseVars, cleanVars>>

\* export_html_to_sqlite_db, lines 170-176: the year list and the backup copy
ExportBegin ==
    /\ pc = "export"
    /\ year_list' = export_year_list(sqlite_df)
    /\ IF db.exists
       THEN /\ orig' = db
            /\ nbackup' = nbackup + 1
       ELSE UNCHANGED <<orig, nbackup>>
    /\ pc' = "to_sql"
    /\ UNCHANGED <<events, db, mode, args, yi, master_concert_list, sqlite_df,
                   reported, err, db0, orig0, runs>>
    /\ UNCHANGED <<mergeVars, keysVars, parseVars, cleanVars>>

\* the table loop with the backup copy made inside it: a mutant
ExportYearBackupEach ==
    /\ pc = "to_sql"
    /\ year_list # <<>>
    /\ IF db.exists
       THEN /\ orig' = db
            /\ nbackup' = nbackup + 1
       ELSE UNCHANGED <<orig, nbackup>>
    /\ LET year == Head(year_list)
           r == to_sql(db, year, SelectSeq(sqlite_df, LAMBDA row : row.year = year),
                       IF args.append_records THEN "append" ELSE "fail")
       IN  IF r.ok
           THEN /\ db' = r.db
                /\ year_list' = Tail(year_list)
                /\ UNCHANGED <<pc, err>>
           ELSE /\ pc' = "failed"
                /\ err' = "export"
                /\ UNCHANGED <<db, year_list>>
    /\ UNCHANGED <<events, mode, args, yi, master_concert_list, sqlite_df,
                   reported, db0, orig0, runs>>
    /\ UNCHANGED <<mergeVars, keysVars, parseVars, cleanVars>>

\* export_html_to_sqlite_db, lines 179-189: one iteration of the table loop
ExportYear ==
    /\ pc = "to_sql"
    /\ year_list # <<>>
    /\ LET year == Head(year_list)
           r == to_sql(db, year, SelectSeq(sqlite_df, LAMBDA row : row.year = year),
                       IF args.append_records THEN "append" ELSE "fail")
       IN  IF r.ok
           THEN /\ db' = r.db
                /\ year_list' = Tail(year_list)
                /\ UNCHANGED <<pc, err>>
           ELSE /\ pc' = "failed"
                /\ err' = "export"
                /\ UNCHANGED <<db, year_list>>
    /\ UNCHANGED <<events, orig, mode, args, yi, master_concert_list, sqlite_df,
                   reported, db0, orig0, nbackup, runs>>
    /\ UNCHANGED <<mergeVars, keysVars, parseVars, cleanVars>>

\* export_html_to_sqlite_db, lines 190-191: every table written
ExportDone ==
    /\ pc = "to_sql"
    /\ year_list = <<>>
    /\ pc' = "done"
    /\ UNCHANGED <<events, db, orig, mode, args, yi, master_concert_list, sqlite_df,
                   year_list, reported, err, db0, orig0, nbackup, runs>>
    /\ UNCHANGED <<mergeVars, keysVars, parseVars, cleanVars>>

\* the call has returned or raised: its locals are gone
Return ==
    /\ pc \in {"done", "failed"}
    /\ pc' = "idle"
    /\ mode' = "none"
    /\ args' = NoArgs
    /\ yi' = 1
    /\ master_concert_list' = <<>>
    /\ sqlite_df' = <<>>
    /\ year_list' = <<>>
    /\ reported' = <<>>
    /\ err' = ""
    /\ db0' = db
    /\ orig0' = orig
    /\ nbackup' = 0
    /\ UNCHANGED <<events, db, orig, runs>>
    /\ UNCHANGED <<mergeVars, keysVars, parseVars, cleanVars>>

----------------------------------------------------------------------------
(* 1-sso_parse_calendars.py: CalendarJsonProcessor.  A url is the sequence *)
(* of its "/"-separated segments, the empty string is <<>>.  An entry of   *)
(* the data list may lack the "url" key (has_url FALSE).                   *)
Urls == {<<>>, <<"sso", "k1">>, <<"sso", "k2">>}

Concerts ==
    {[has_url |-> TRUE, url |-> u, rev |-> 1] : u \in Urls}
    \cup {[has_url |-> TRUE, url |-> <<"sso", "k1">>, rev |-> 2],
          [has_url |-> FALSE, url |-> <<>>, rev |-> 1]}

NoJson == [exists |-> FALSE, data |-> <<>>, meta |-> "none"]

JsonFiles(meta) ==
    {NoJson} \cup {[exists |-> TRUE, data |-> d, meta |-> meta] :
                      d \in SeqsUpTo(Concerts, MaxData)}

\* concert.get("url", "")
GetUrl(concert) == IF concert.has_url THEN concert.url ELSE <<>>

\* the url of the first entry only: a mutant
extract_first_concert_url(concert_list) ==
    IF concert_list = <<>> THEN {} ELSE {GetUrl(concert_list[1])} \ {<<>>}

\* set(filter(lambda url: url, sorted(set(concert.get("url", "") ...))))
extract_unique_concert_urls(concert_list) ==
    {GetUrl(concert_list[i]) : i \in 1..Len(concert_list)} \ {<<>>}

\* every url of the new calendar, the old urls not taken away: a mutant
concert_url_diff_all_new(old_json_urls, new_json_urls) == new_json_urls

\* new_json_urls.difference(old_json_urls)
concert_url_diff(old_json_urls, new_json_urls) == new_json_urls \ old_json_urls

\* merge_json_calendars on two loaded calendars: the merged calendar, or the
\* KeyError of concert["url"] on an entry of the new calendar without a url
merge_json_calendars(old_json_content, new_json_content) ==
    LET diff == concert_url_diff(
                    extract_unique_concert_urls(old_json_content.data),
                    extract_unique_concert_urls(new_json_content.data))
        new_concert_data ==
            SelectSeq(new_json_content.data, LAMBDA concert : concert.url \in diff)
    IN  IF \E i \in 1..Len(new_json_content.data) : ~new_json_content.data[i].has_url
        THEN [ok |-> FALSE, content |-> NoJson]
        ELSE [ok |-> TRUE,
              content |-> [exists |-> TRUE,
                           data |-> old_json_content.data \o new_concert_data,
                           meta |-> new_json_content.meta]]

InitMerge ==
    /\ old_json_file \in JsonFiles("meta-old")
    /\ new_json_file \in JsonFiles("meta-new")
    /\ merged_json_content = NoJson
    /\ export_json = NoJson
    /\ mpc = "start"

\* main(), lines 490-495: merge_json_calendars(old_json_file, new_json_file)
MergeCalendars ==
    /\ mpc = "start"
    /\ IF ~old_json_file.exists \/ ~new_json_file.exists
       THEN /\ mpc' = "OSError"
            /\ UNCHANGED merged_json_content
       ELSE LET r == merge_json_calendars(old_json_file, new_json_file)
            IN  IF r.ok
                THEN /\ merged_json_content' = r.content
                     /\ mpc' = "merged"
                ELSE /\ mpc' = "KeyError"
                     /\ UNCHANGED merged_json_content
    /\ UNCHANGED <<old_json_file, new_json_file, export_json>>
    /\ UNCHANGED <<storeVars, keysVars, parseVars, cleanVars>>

\* main(), lines 496-505: export_merged_json_calendar
ExportMerged ==
    /\ mpc = "merged"
    /\ export_json' = merged_json_content
    /\ mpc' = "exported"
    /\ UNCHANGED <<old_json_file, new_json_file, merged_json_content>>
    /\ UNCHANGED <<storeVars, keysVars, parseVars, cleanVars>>

NextMerge ==
    \/ MergeCalendars
    \/ ExportMerged

NextStore ==
    \/ \E a \in MainArgs : MainStart(a)
    \/ ImportYear
    \/ MainExportOrDryRun
    \/ \E df \in LibDataFrames, ap \in BOOLEAN : LibExport(df, ap)
    \/ ExportBegin
    \/ ExportYear
    \/ ExportDone
    \/ Return

----------------------------------------------------------------------------
(* 1-sso_parse_calendars.py: SSOCalendar and extract_concert_ids.  The     *)
(* model holds the month files of one HTML-calendar year and the JSON file *)
(* of one JSON-calendar year; every other calendar file is missing.        *)
HtmlYear == 2020
JsonYear == 2021

\* the first months of common.SSO_SEASON_MONTHS
SSO_SEASON_MONTHS == <<"February", "March">>

\* the concert keys, in the order sort_values() gives them
SortedKeys == <<"k1", "k2">>

\* a calendar-entry node of a month file: the href of its "Read More" anchor,
\* or no such anchor
CalendarNodes ==
    {[has_anchor |-> TRUE, href |-> h] :
        h \in {<<"sso", "k1">>, <<"sso", "k2">>, <<"alt", "k1">>}}
    \cup {[has_anchor |-> FALSE, href |-> <<>>]}

NoHtml == [status |-> "missing", rows |-> <<>>]

\* an entry of the data list of the calendar JSON
SeasonConcerts ==
    {[has_url |-> TRUE, url |-> u, concertSeason |-> 2021] :
        u \in {<<>>, <<"sso", "k1">>, <<"sso", "k2">>, <<"alt", "k1">>}}
    \cup {[has_url |-> TRUE, url |-> <<"sso", "k2">>, concertSeason |-> 2022],
          [has_url |-> FALSE, url |-> <<>>, concertSeason |-> 2021]}

NoCalendarJson == [status |-> "missing", data |-> <<>>]

HtmlCalendarStates ==
    {f \in [Range(SSO_SEASON_MONTHS) -> [status : {"ok", "missing"},
                                        rows : SeqsUpTo(CalendarNodes, MaxCalRows)]] :
        /\ \A m \in Range(SSO_SEASON_MONTHS) : f[m].status = "missing" => f[m].rows = <<>>
        /\ Len(f["March"].rows) <= 1
        /\ \A i \in 1..Len(f["March"].rows) : f["March"].rows[i].href = <<"sso", "k2">>}

JsonCalendarStates ==
    {NoCalendarJson, [status |-> "nodata", data |-> <<>>]}
    \cup {[status |-> "ok", data |-> d] : d \in SeqsUpTo(SeasonConcerts, MaxCalRows)}

HtmlCalendarSimple ==
    [m \in Range(SSO_SEASON_MONTHS) |->
        IF m = "February"
        THEN [status |-> "ok", rows |-> <<[has_anchor |-> TRUE, href |-> <<"sso", "k1">>]>>]
        ELSE [status |-> "ok", rows |-> <<>>]]

JsonCalendarSimple ==
    [status |-> "ok",
     data |-> <<[has_url |-> TRUE, url |-> <<"sso", "k2">>, concertSeason |-> 2021]>>]

HtmlFileOf(year, month) ==
    IF year = HtmlYear THEN html_calendar_files[month] ELSE NoHtml

JsonFileOf(year) ==
    IF year = JsonYear THEN json_calendar_file ELSE NoCalendarJson

\* s.split("/")[-1]
LastSegment(path) == path[Len(path)]

RECURSIVE AddConcertKeys(_, _, _)
\* _parse_single_html_calendar_file, lines 231-233: the loop over the nodes;
\* a node without the anchor raises TypeError
AddConcertKeys(concerts, idx, keys) ==
    IF idx > Len(concerts) THEN [result |-> "record", keys |-> keys]
    ELSE IF ~concerts[idx].has_anchor THEN [result |-> "TypeError", keys |-> {}]
    ELSE AddConcertKeys(concerts, idx + 1, keys \cup {LastSegment(concerts[idx].href)})

\* the node loop stopping after the first node: a mutant
parse_single_html_calendar_file_first(year, month) ==
    LET file == HtmlFileOf(year, month)
    IN  IF file.status # "ok" THEN [result |-> "OSError", keys |-> {}]
        ELSE IF file.rows = <<>> THEN [result |-> "none", keys |-> {}]
        ELSE AddConcertKeys(SubSeq(file.rows, 1, 1), 1, {})

\* _parse_single_html_calendar_file
parse_single_html_calendar_file(year, month) ==
    LET file == HtmlFileOf(year, month)
    IN  IF file.status # "ok" THEN [result |-> "OSError", keys |-> {}]
        ELSE IF file.rows = <<>> THEN [result |-> "none", keys |-> {}]
        ELSE AddConcertKeys(file.rows, 1, {})

RECURSIVE ParseMonthsSkipUnreadable(_, _, _, _)
\* the loop over the months going on after a month that failed to load: a
\* mutant
ParseMonthsSkipUnreadable(year, month_list, idx, html_concert_list) ==
    IF idx > Len(month_list) THEN [result |-> "ok", records |-> html_concert_list]
    ELSE LET html_concert == parse_single_html_calendar_file(year, month_list[idx])
         IN  IF html_concert.result = "TypeError"
             THEN [result |-> html_concert.result, records |-> <<>>]
             ELSE ParseMonthsSkipUnreadable(year, month_list, idx + 1,
                              IF html_concert.result = "record"
                              THEN Append(html_concert_list, html_concert.keys)
                              ELSE html_concert_list)

RECURSIVE ParseMonths(_, _, _, _)
\* _parse_html_calendar, lines 259-275: the loop over the months; the keys of
\* the records collected so far are lost when a month raises
ParseMonths(year, month_list, idx, html_concert_list) ==
    IF idx > Len(month_list) THEN [result |-> "ok", records |-> html_concert_list]
    ELSE LET html_concert == parse_single_html_calendar_file(year, month_list[idx])
         IN  IF html_concert.result \in {"OSError", "TypeError"}
             THEN [result |-> html_concert.result, records |-> <<>>]
             ELSE ParseMonths(year, month_list, idx + 1,
                              IF html_concert.result = "record"
                              THEN Append(html_concert_list, html_concert.keys)
                              ELSE html_concert_list)

\* _parse_html_calendar
parse_html_calendar(year) ==
    IF year < EARLIEST_SSO_SEASON_YEAR \/ year >= JSON_CALENDAR_START_YEAR
    THEN [result |-> "ValueError", records |-> <<>>]
    ELSE ParseMonths(year, SSO_SEASON_MONTHS, 1, <<>>)

\* common.validate_sso_json_calendar_year: TRUE when it returns
validate_sso_json_calendar_year(season_year) ==
    ~(season_year < JSON_CALENDAR_START_YEAR \/ season_year > LATEST_SSO_SEASON_YEAR)

\* CalendarJsonProcessor.filter_season_data, lines 94-98
filter_season_data(year, data) ==
    SelectSeq(data, LAMBDA concert : concert.concertSeason = year)

\* _parse_json_calendar: the record's key set
parse_json_calendar(year) ==
    LET file == JsonFileOf(year)
        concerts == filter_season_data(year, file.data)
        concert_urls == extract_unique_concert_urls(concerts)
    IN  IF ~validate_sso_json_calendar_year(year) THEN [result |-> "ValueError", keys |-> {}]
        ELSE IF file.status = "missing" THEN [result |-> "OSError", keys |-> {}]
        ELSE IF file.status = "nodata" THEN [result |-> "KeyError", keys |-> {}]
        ELSE [result |-> "ok", keys |-> {LastSegment(url) : url \in concert_urls}]

\* _create_sso_calendar_key_df: the keys of the exploded, de-duplicated
\* dataframe.  Its row order is the iteration order of Python sets and is not
\* modelled: the export sorts the keys.
create_sso_calendar_key_df(year) ==
    IF year >= JSON_CALENDAR_START_YEAR
    THEN parse_json_calendar(year)
    ELSE LET html_calendar == parse_html_calendar(year)
         IN  [result |-> html_calendar.result,
              keys |-> UNION {html_calendar.records[i] :
                                 i \in 1..Len(html_calendar.records)}]

\* calendar_df["keys"].sort_values().to_csv(...)
sorted_keys_csv(keys) == SelectSeq(SortedKeys, LAMBDA k : k \in keys)

KeyYears == {HtmlYear, JsonYear}

KeyYearLists ==
    {<<2020>>, <<2021>>, <<2020, 2021>>, <<2021, 2020>>, <<2025>>, <<2020, 2025>>,
     <<2017>>}

NoCsv == [exists |-> FALSE, content |-> <<>>]

InitKeys ==
    /\ \/ /\ html_calendar_files \in HtmlCalendarStates
          /\ json_calendar_file = JsonCalendarSimple
       \/ /\ html_calendar_files = HtmlCalendarSimple
          /\ json_calendar_file \in JsonCalendarStates
    /\ export_csv = [y \in KeyYears |-> NoCsv]
    /\ old_file = [y \in KeyYears |-> NoCsv]
    /\ csv_tempfile = NoCsv
    /\ kpc = "idle"
    /\ years_arg = <<>>
    /\ ki = 1
    /\ calendar_df = {}
    /\ klog = <<>>
    /\ kfails = 0
    /\ kruns = 0

\* main(), lines 507-513: validation of the -y list
ExtractStart(years) ==
    /\ kpc = "idle"
    /\ kruns < MaxKeyRuns
    /\ kruns' = kruns + 1
    /\ years_arg' = years
    /\ ki' = 1
    /\ kpc' = IF validate_sso_input_years(years) THEN "year" ELSE "ValueError"
    /\ UNCHANGED <<html_calendar_files, json_calendar_file, export_csv, old_file,
                   csv_tempfile, calendar_df, klog, kfails>>
    /\ UNCHANGED <<storeVars, mergeVars, parseVars, cleanVars>>

\* main(), lines 515-531: the key dataframe of the next year
CreateKeyDf ==
    /\ kpc = "year"
    /\ ki <= Len(years_arg)
    /\ LET year == years_arg[ki]
           r == create_sso_calendar_key_df(year)
       IN  IF r.result = "TypeError"
           THEN /\ kpc' = "TypeError"
                /\ UNCHANGED <<ki, calendar_df, klog>>
           ELSE IF r.result # "ok" /\ r.result # "record"
           THEN /\ klog' = Append(klog, <<year, "skipped: error">>)
                /\ ki' = ki + 1
                /\ UNCHANGED <<kpc, calendar_df>>
           ELSE IF r.keys = {}
           THEN /\ klog' = Append(klog, <<year, "skipped: empty">>)
                /\ ki' = ki + 1
                /\ UNCHANGED <<kpc, calendar_df>>
           ELSE /\ calendar_df' = r.keys
                /\ kpc' = "temp"
                /\ UNCHANGED <<ki, klog>>
    /\ UNCHANGED <<html_calendar_files, json_calendar_file, export_csv, old_file,
                   csv_tempfile, years_arg, kfails, kruns>>
    /\ UNCHANGED <<storeVars, mergeVars, parseVars, cleanVars>>

\* the sorted keys written straight to the export path, no temporary file and
\* no backup of the existing CSV: a mutant
WriteExportFileDirectly ==
    /\ kpc = "temp"
    /\ export_csv' = [export_csv EXCEPT ![years_arg[ki]] =
                         [exists |-> TRUE, content |-> sorted_keys_csv(calendar_df)]]
    /\ klog' = Append(klog, <<years_arg[ki], "saved">>)
    /\ ki' = ki + 1
    /\ kpc' = "year"
    /\ calendar_df' = {}
    /\ UNCHANGED <<html_calendar_files, json_calendar_file, old_file, csv_tempfile,
                   years_arg, kfails, kruns>>
    /\ UNCHANGED <<storeVars, mergeVars, parseVars, cleanVars>>

\* _export_sso_calendar_key_df, lines 373-386: the sorted keys go to a
\* temporary file; an OSError is logged by main(), which goes on to the next year
WriteTempFile ==
    /\ kpc = "temp"
    /\ \E ok \in BOOLEAN :
          /\ ~ok => kfails < MaxIoFailures
          /\ IF ok
             THEN /\ csv_tempfile' = [exists |-> TRUE, content |-> sorted_keys_csv(calendar_df)]
                  /\ kpc' = "rename"
                  /\ UNCHANGED <<ki, klog, kfails, calendar_df>>
             ELSE /\ csv_tempfile' = NoCsv
                  /\ klog' = Append(klog, <<years_arg[ki], "error: temp file">>)
                  /\ ki' = ki + 1
                  /\ kpc' = "year"
                  /\ kfails' = kfails + 1
                  /\ calendar_df' = {}
    /\ UNCHANGED <<html_calendar_files, json_calendar_file, export_csv, old_file,
                   years_arg, kruns>>
    /\ UNCHANGED <<storeVars, mergeVars, parseVars, cleanVars>>

\* _export_sso_calendar_key_df, lines 388-398: an existing CSV is renamed to
\* the dated name.  Outcomes: "renamed" (os.rename succeeded), "replaced" (it
\* failed, the old backup was removed and the second os.rename succeeded),
\* "remove failed" (it failed and os.remove raised), "rename failed" (the old
\* backup was removed and the second os.rename raised)
RenameExistingCsv ==
    /\ kpc = "rename"
    /\ LET year == years_arg[ki]
       IN  IF ~export_csv[year].exists
           THEN /\ kpc' = "move"
                /\ UNCHANGED <<export_csv, old_file, ki, klog, kfails, calendar_df,
                               csv_tempfile>>
           ELSE \E outcome \in {"renamed", "replaced", "remove failed", "rename failed"} :
                   /\ outcome # "renamed" => kfails < MaxIoFailures
                   /\ outcome \in {"replaced", "rename failed"} => old_file[year].exists
                   /\ kfails' = IF outcome = "renamed" THEN kfails ELSE kfails + 1
                   /\ IF outcome \in {"renamed", "replaced"}
                      THEN /\ old_file' = [old_file EXCEPT ![year] = export_csv[year]]
                           /\ export_csv' = [export_csv EXCEPT ![year] = NoCsv]
                           /\ kpc' = "move"
                           /\ UNCHANGED <<ki, klog, calendar_df, csv_tempfile>>
                      ELSE /\ old_file' = IF outcome = "rename failed"
                                          THEN [old_file EXCEPT ![year] = NoCsv]
                                          ELSE old_file
                           /\ klog' = Append(klog, <<year, "error: rename">>)
                           /\ ki' = ki + 1
                           /\ kpc' = "year"
                           /\ calendar_df' = {}
                           /\ csv_tempfile' = NoCsv
                           /\ UNCHANGED export_csv
    /\ UNCHANGED <<html_calendar_files, json_calendar_file, years_arg, kruns>>
    /\ UNCHANGED <<storeVars, mergeVars, parseVars, cleanVars>>

\* _export_sso_calendar_key_df, lines 400-409: the temporary file is moved to
\* the export path
MoveTempFile ==
    /\ kpc = "move"
    /\ LET year == years_arg[ki]
       IN  \E ok \in BOOLEAN :
              /\ ~ok => kfails < MaxIoFailures
              /\ IF ok
                 THEN /\ export_csv' = [export_csv EXCEPT ![year] = csv_tempfile]
                      /\ klog' = Append(klog, <<year, "saved">>)
                      /\ UNCHANGED kfails
                 ELSE /\ klog' = Append(klog, <<year, "error: move">>)
                      /\ kfails' = kfails + 1
                      /\ UNCHANGED export_csv
    /\ csv_tempfile' = NoCsv
    /\ calendar_df' = {}
    /\ ki' = ki + 1
    /\ kpc' = "year"
    /\ UNCHANGED <<html_calendar_files, json_calendar_file, old_file, years_arg, kruns>>
    /\ UNCHANGED <<storeVars, mergeVars, parseVars, cleanVars>>

\* main(): the loop over the years has ended
ExtractDone ==
    /\ kpc = "year"
    /\ ki > Len(years_arg)
    /\ kpc' = "finished"
    /\ UNCHANGED <<html_calendar_files, json_calendar_file, export_csv, old_file,
                   csv_tempfile, years_arg, ki, calendar_df, klog, kfails, kruns>>
    /\ UNCHANGED <<storeVars, mergeVars, parseVars, cleanVars>>

\* the process has ended (normally, or with an uncaught exception)
ExtractReturn ==
    /\ kpc \in {"finished", "ValueError", "TypeError"}
    /\ kpc' = "idle"
    /\ years_arg' = <<>>
    /\ ki' = 1
    /\ calendar_df' = {}
    /\ klog' = <<>>
    /\ UNCHANGED <<html_calendar_files, json_calendar_file, export_csv, old_file,
                   csv_tempfile, kfails, kruns>>
    /\ UNCHANGED <<storeVars, mergeVars, parseVars, cleanVars>>

NextKeys ==
    \/ \E years \in KeyYearLists : ExtractStart(years)
    \/ CreateKeyDf
    \/ WriteTempFile
    \/ RenameExistingCsv
    \/ MoveTempFile
    \/ ExtractDone
    \/ ExtractReturn

----------------------------------------------------------------------------
(* 3-sso_parse_2018_2021_concerts.py: the Repertoire class.  A composer or *)
(* piece string is one of the texts below; str.title() and the two re.sub  *)
(* clean-ups are tabulated on them.                                        *)
MaxRepertoire == 2  \* pairs in a repertoire_data given directly to Repertoire
MaxArtists == 2     \* pairs in an artist_data given directly to ArtistConductor

DEFAULT_COMPOSER == "Unknown"
DEFAULT_PIECE == "Various"

\* str.title() on the texts of the model
StrTitle(s) ==
    CASE s = "BEETHOVEN" -> "Beethoven"
      [] s = "MOZART" -> "Mozart"
      [] s = "MOZART*" -> "Mozart*"
      [] s = "INTERVAL" -> "Interval"
      [] s = "AND" -> "And"
      [] s = "FIFTY FANFARES COMMISSION" -> "Fifty Fanfares Commission"
      [] OTHER -> s

\* re.sub(COMPOSER_REGEX_PAT, '', s): the characters ^ * " ' removed
ComposerRegexSub(s) ==
    CASE s = "Mozart*" -> "Mozart"
      [] OTHER -> s

\* re.sub(PIECE_REGEX_PAT, '', s): the characters ^ * removed
PieceRegexSub(s) ==
    CASE s = "Requiem*" -> "Requiem"
      [] OTHER -> s

\* Repertoire._add_composers
add_composers(composer_list) ==
    [i \in 1..Len(composer_list) |->
        IF composer_list[i] = "" THEN DEFAULT_COMPOSER
        ELSE ComposerRegexSub(StrTitle(composer_list[i]))]

RECURSIVE add_pieces(_, _, _, _)
\* Repertoire._add_pieces: the loop over enumerate(piece_list)
add_pieces(piece_list, composer_list, idx, acc) ==
    IF idx > Len(piece_list) THEN acc
    ELSE add_pieces(piece_list, composer_list, idx + 1,
            IF piece_list[idx] = ""
            THEN IF composer_list[idx] # "" THEN Append(acc, DEFAULT_PIECE) ELSE acc
            ELSE Append(acc, PieceRegexSub(piece_list[idx])))

\* Repertoire.__init__ without the default pair for an empty repertoire_data
\* and without the default of an empty piece list: a mutant
RepertoireNoDefaults(data) ==
    LET piece_list == [i \in 1..Len(data) |-> data[i][1]]
        composer_list == [i \in 1..Len(data) |-> data[i][2]]
    IN  [composers |-> add_composers(composer_list),
         pieces |-> add_pieces(piece_list, composer_list, 1, <<>>)]

\* Repertoire.__init__: the composers and pieces of the new object
Repertoire(data) ==
    LET values == IF data = <<>> THEN << <<DEFAULT_PIECE, DEFAULT_COMPOSER>> >> ELSE data
        piece_list == [i \in 1..Len(values) |-> values[i][1]]
        composer_list == [i \in 1..Len(values) |-> values[i][2]]
        cs == add_composers(composer_list)
        ps == add_pieces(piece_list, composer_list, 1, <<>>)
    IN  [composers |-> IF cs = <<>> THEN <<DEFAULT_COMPOSER>> ELSE cs,
         pieces |-> IF ps = <<>> THEN <<DEFAULT_PIECE>> ELSE ps]

\* the (piece, composer) pairs a caller hands to Repertoire
RepertoirePairs ==
    {<<p, c>> : p \in {"", "Symphony No.5", "Requiem*"},
                c \in {"", "Beethoven", "MOZART*"}}

InitRepertoire ==
    /\ repertoire_data \in SeqsUpTo(RepertoirePairs, MaxRepertoire)
    /\ composers = <<>>
    /\ pieces = <<>>
    /\ rpc = "new"

\* Repertoire(repertoire_data=...)
NewRepertoire ==
    /\ rpc = "new"
    /\ composers' = Repertoire(repertoire_data).composers
    /\ pieces' = Repertoire(repertoire_data).pieces
    /\ rpc' = "built"
    /\ UNCHANGED <<repertoire_data, artistVars, concertVars>>
    /\ UNCHANGED <<storeVars, mergeVars, keysVars, cleanVars>>

NextRepertoire == NewRepertoire

----------------------------------------------------------------------------
(* The ArtistConductor class.  An artist string is the sequence of its     *)
(* comma-separated parts, each stripped: 'John Doe, conductor' is          *)
(* <<"John Doe", "conductor">> and '' is <<"">>; str.lower() and           *)
(* str.title() are tabulated on the parts.                                 *)
EmptyStr == <<"">>

DEFAULT_CONDUCTOR == <<"Unknown">>
DEFAULT_ARTIST == << <<"Artist">>, <<"Unknown">> >>

\* str.lower() of a part
PartLower(p) ==
    CASE p = "Musical Director" -> "musical director"
      [] p = "Violin-Director" -> "violin-director"
      [] p = "Sydney Symphony Orchestra" -> "sydney symphony orchestra"
      [] p = "Film Score" -> "film score"
      [] p = "Soprano" -> "soprano"
      [] p = "Simone Young" -> "simone young"
      [] p = "Nicholas Carter" -> "nicholas carter"
      [] p = "John Doe" -> "john doe"
      [] p = "Evanescence is:" -> "evanescence is:"
      [] p = "Unknown" -> "unknown"
      [] OTHER -> p

\* str.title() of a part
PartTitle(p) ==
    CASE p = "conductor" -> "Conductor"
      [] p = "piano" -> "Piano"
      [] p = "violin" -> "Violin"
      [] p = "Evanescence is:" -> "Evanescence Is:"
      [] OTHER -> p

\* s.title()
ArtistTitle(s) == [i \in 1..Len(s) |-> PartTitle(s[i])]

\* any(keyword in s.lower() for keyword in CONDUCTOR_KEYWORDS)
HasConductorKeyword(s) ==
    \E i \in 1..Len(s) :
        PartLower(s[i]) \in {"conductor", "condcutor", "musical director", "artistic director"}

\* s.lower().endswith('-director') or s.lower().startswith('director and')
IsConductingArtist(s) ==
    \/ PartLower(s[Len(s)]) \in {"violin-director"}
    \/ PartLower(s[1]) \in {"director and violin"}

\* any(keyword in s.lower() for keyword in ['-director', 'director and'])
HasDirectorKeyword(s) ==
    \E i \in 1..Len(s) : PartLower(s[i]) \in {"violin-director", "director and violin"}

\* s.lower().endswith(tuple(ENSEMBLE_KEYWORDS))
IsEnsemble(s) == PartLower(s[Len(s)]) \in {"sydney symphony orchestra"}

\* ArtistConductor._add_conductor taking the second element whenever the first
\* holds a conductor keyword: a mutant
add_conductor_second_element(self_conductor, artist_tuple) ==
    IF HasConductorKeyword(artist_tuple[1]) THEN artist_tuple[2]
    ELSE IF HasConductorKeyword(artist_tuple[2]) THEN artist_tuple[1]
    ELSE IF HasDirectorKeyword(artist_tuple[1]) THEN artist_tuple[2]
    ELSE self_conductor

\* ArtistConductor._add_conductor: the conductor after the call
add_conductor(self_conductor, artist_tuple) ==
    LET artist_split == artist_tuple[1]
    IN  IF HasConductorKeyword(artist_tuple[1])
        THEN IF Len(artist_split) > 1
             THEN IF artist_split[2] = "conductor"
                  THEN <<artist_split[1]>>
                  ELSE artist_tuple[2]
             ELSE artist_tuple[2]
        ELSE IF HasConductorKeyword(artist_tuple[2]) THEN artist_tuple[1]
        ELSE IF HasDirectorKeyword(artist_tuple[1]) THEN artist_tuple[2]
        ELSE self_conductor

\* ArtistConductor._add_artists: the artists after the call
add_artists(self_artists, self_conductor, artist_tuple) ==
    LET artist_split == artist_tuple[1]
    IN  IF IsConductingArtist(artist_tuple[1])
        THEN Append(self_artists, <<ArtistTitle(artist_tuple[1]), artist_tuple[2]>>)
        ELSE IF Len(artist_split) > 1 /\ PartLower(artist_split[1]) = "conductor"
        THEN self_artists \o [i \in 1..(Len(artist_split) - 1) |->
                                 << <<PartTitle(artist_split[i + 1])>>, artist_tuple[2] >>]
        ELSE IF IsEnsemble(artist_tuple[2])
        THEN LET with_ensemble == Append(self_artists, << <<"Artist">>, artist_tuple[2] >>)
             IN  IF self_conductor # DEFAULT_CONDUCTOR /\ Len(artist_split) > 1
                 THEN Append(with_ensemble,
                             << <<PartTitle(artist_split[2])>>, <<artist_split[1]>> >>)
                 ELSE with_ensemble
        ELSE IF HasConductorKeyword(artist_tuple[1]) \/ HasConductorKeyword(artist_tuple[2])
        THEN self_artists
        ELSE IF artist_tuple[1] = EmptyStr
        THEN IF artist_tuple[2][Len(artist_tuple[2])] \in {"Evanescence is:"}
             THEN self_artists
             ELSE Append(self_artists, << <<"Artist">>, artist_tuple[2] >>)
        ELSE IF artist_tuple[2] = EmptyStr
        THEN Append(self_artists, << <<"Artist">>, artist_tuple[1] >>)
        ELSE IF \E i \in 1..Len(artist_tuple[2]) :
                    PartLower(artist_tuple[2][i]) \in {"film credit", "film score"}
        THEN Append(self_artists, << <<"Artist">>, artist_tuple[1] >>)
        ELSE IF \E i \in 1..Len(artist_tuple[2]) :
                    PartLower(artist_tuple[2][i]) \in {"concertmaster", "narrator", "soprano"}
        THEN Append(self_artists, <<ArtistTitle(artist_tuple[2]), artist_tuple[1]>>)
        ELSE Append(self_artists, <<ArtistTitle(artist_tuple[1]), artist_tuple[2]>>)

RECURSIVE ArtistLoop(_, _, _, _)
\* ArtistConductor.__init__, lines 54-58, calling _add_conductor for every
\* entry: a mutant
ArtistLoopLastWins(data, idx, self_conductor, self_artists) ==
    IF idx > Len(data) THEN [conductor |-> self_conductor, artists |-> self_artists]
    ELSE LET c == add_conductor(self_conductor, data[idx])
             a == IF self_artists # <<DEFAULT_ARTIST>>
                  THEN add_artists(self_artists, c, data[idx])
                  ELSE self_artists
         IN  ArtistLoop(data, idx + 1, c, a)

\* ArtistConductor.__init__, lines 54-58: the loop over artist_data
ArtistLoop(data, idx, self_conductor, self_artists) ==
    IF idx > Len(data) THEN [conductor |-> self_conductor, artists |-> self_artists]
    ELSE LET c == IF self_conductor = DEFAULT_CONDUCTOR
                  THEN add_conductor(self_conductor, data[idx])
                  ELSE self_conductor
             a == IF self_artists # <<DEFAULT_ARTIST>>
                  THEN add_artists(self_artists, c, data[idx])
                  ELSE self_artists
         IN  ArtistLoop(data, idx + 1, c, a)

\* ArtistConductor.__init__ without the default artist of a list left empty:
\* a mutant
ArtistConductorNoDefault(data) ==
    IF data = <<>>
    THEN [conductor |-> DEFAULT_CONDUCTOR, artists |-> <<DEFAULT_ARTIST>>]
    ELSE ArtistLoop(data, 1, DEFAULT_CONDUCTOR, <<>>)

\* ArtistConductor.__init__: the conductor and artists of the new object
ArtistConductor(data) ==
    IF data = <<>>
    THEN [conductor |-> DEFAULT_CONDUCTOR, artists |-> <<DEFAULT_ARTIST>>]
    ELSE LET r == ArtistLoop(data, 1, DEFAULT_CONDUCTOR, <<>>)
         IN  [conductor |-> r.conductor,
              artists |-> IF r.artists = <<>> THEN <<DEFAULT_ARTIST>> ELSE r.artists]

\* the pairs a caller hands to ArtistConductor
ArtistTuples ==
    {<< <<"conductor">>, <<"Simone Young">> >>,
     << <<"Simone Young">>, <<"Musical Director">> >>,
     << <<"Nicholas Carter", "conductor">>, <<"Sydney Symphony Orchestra">> >>,
     << <<"John Doe", "conductor">>, <<"Sydney Symphony Orchestra">> >>,
     << <<"conductor", "piano">>, <<"John Doe">> >>,
     << <<"Violin-Director">>, <<"John Doe">> >>,
     << <<"piano">>, <<"John Doe">> >>,
     << <<"John Doe">>, <<"Soprano">> >>,
     << <<"John Doe">>, <<"Film Score">> >>,
     << <<"John Doe">>, EmptyStr >>,
     << EmptyStr, <<"Evanescence is:">> >>,
     << EmptyStr, <<"Unknown">> >>}

InitArtists ==
    /\ artist_data \in SeqsUpTo(ArtistTuples, MaxArtists)
    /\ conductor = DEFAULT_CONDUCTOR
    /\ artists = <<>>
    /\ apc = "new"

\* ArtistConductor(artist_data=...)
NewArtistConductor ==
    /\ apc = "new"
    /\ conductor' = ArtistConductor(artist_data).conductor
    /\ artists' = ArtistConductor(artist_data).artists
    /\ apc' = "built"
    /\ UNCHANGED <<artist_data, repertoireVars, concertVars>>
    /\ UNCHANGED <<storeVars, mergeVars, keysVars, cleanVars>>

NextArtists == NewArtistConductor

----------------------------------------------------------------------------
(* The concert documents.  A legacy page (seasons before 2021) carries its *)
(* dates, program and artists in definition lists under <h5> headings; a   *)
(* current page carries date spans and, under <h2> headings, paragraphs of *)
(* tags, strings and <br> tags.  One record holds both sets of elements;   *)
(* the elements a page does not have are absent or empty.                  *)

\* <dt>/<dd> of a legacy Program list: [dt, dd, has_dd], texts stripped
ProgramEntries ==
    {[dt |-> "BEETHOVEN", dd |-> "Symphony No.5", has_dd |-> TRUE],
     [dt |-> "BEETHOVEN", dd |-> "", has_dd |-> TRUE],
     [dt |-> "BEETHOVEN", dd |-> "composer", has_dd |-> TRUE],
     [dt |-> "", dd |-> "", has_dd |-> TRUE],
     [dt |-> "", dd |-> "Requiem*", has_dd |-> TRUE],
     [dt |-> "", dd |-> "Highlights", has_dd |-> TRUE],
     [dt |-> "", dd |-> "Interval", has_dd |-> TRUE],
     [dt |-> "And", dd |-> "Symphony No.5", has_dd |-> TRUE],
     [dt |-> "INTERVAL", dd |-> "Symphony No.5", has_dd |-> TRUE],
     [dt |-> "MOZART", dd |-> "", has_dd |-> FALSE]}

\* any(word in s.lower() for word in GENERAL_EXCLUDE_KEYWORDS)
HasGeneralExcludeKeyword(s) == s \in {"Highlights"}

\* any(word in s.lower() for word in COMPOSER_EXCLUDE_KEYWORDS)
HasComposerExcludeKeyword(s) == s \in {"Interval", "INTERVAL"}

\* a node of a paragraph of a current page: a tag (its child strings and its
\* text), a string, or a <br> tag
Tag(strings, text) == [kind |-> "tag", strings |-> strings, text |-> text]
Str(text) == [kind |-> "str", strings |-> <<>>, text |-> text]
Br == [kind |-> "br", strings |-> <<>>, text |-> ""]
ArtistBr == [kind |-> "br", strings |-> <<>>, text |-> EmptyStr]

Beethoven == Tag(<<"BEETHOVEN">>, "BEETHOVEN")
Mozart == Tag(<<"MOZART">>, "MOZART")
Fanfare == Tag(<<"FIFTY FANFARES COMMISSION", "MOZART">>, "FIFTY FANFARES COMMISSIONMOZART")

\* the Program paragraphs of the current pages of the model
ProgramParagraphs ==
    {<<>>,
     <<Beethoven, Str("Symphony No.5")>>,
     <<Beethoven, Br, Str("Symphony No.5")>>,
     <<Beethoven, Str("Symphony No.5"), Br, Mozart, Str("Requiem*")>>,
     <<Beethoven, Str("Symphony No.5"), Br, Str("Requiem*")>>,
     <<Beethoven, Br, Mozart, Str("Requiem*")>>,
     <<Str("Symphony No.5")>>,
     <<Fanfare, Str("Requiem*")>>,
     <<Beethoven>>}

\* the Artists paragraphs of the current pages of the model; the text of a
\* node is an artist string
ArtistParagraphs ==
    {<<Tag(<<"Simone Young">>, <<"Simone Young">>), Str(<<"conductor">>)>>,
     <<Tag(<<"Simone Young">>, <<"Simone Young">>), Str(<<"conductor">>), ArtistBr,
       Tag(<<"John Doe">>, <<"John Doe">>), Str(<<"piano">>)>>,
     <<Tag(<<"Sydney Symphony Orchestra">>, <<"Sydney Symphony Orchestra">>)>>,
     <<Str(<<"John Doe">>)>>}

\* <dt>/<dd> lists of the legacy Artists section
ArtistLists ==
    {<<>>,
     <<[dt |-> <<"Simone Young">>, dd |-> <<"conductor">>, has_dd |-> TRUE]>>,
     <<[dt |-> <<"Simone Young">>, dd |-> <<"conductor">>, has_dd |-> TRUE],
       [dt |-> <<"John Doe">>, dd |-> <<"piano">>, has_dd |-> TRUE]>>,
     <<[dt |-> <<"John Doe">>, dd |-> EmptyStr, has_dd |-> FALSE]>>}

\* texts of the date nodes of a legacy page / of the date spans of a current
\* page ("TBC" is no date)
LegacyDates == <<"Fri 27 Mar, 6:00 pm", "Sat 28 Mar, 2:00 pm">>
DateSpans == <<"Thu 04 November\n 07:00 pm", "Fri 05 November\n 07:00 pm">>

DateLists(dates) ==
    {SubSeq(dates, 1, n) : n \in 0..Len(dates)} \cup {<<"TBC">>}

TheTitle == "Sydney Symphony Orchestra | Some Concert"

NoElements ==
    [title |-> TheTitle,
     dates_h5 |-> FALSE, dates |-> <<>>,
     program_h5 |-> FALSE, program |-> <<>>,
     artists_h5 |-> FALSE, artist_list |-> <<>>,
     date_spans |-> <<>>,
     program_h2 |-> FALSE, program_p |-> <<>>,
     artist_h2 |-> FALSE, artist_p |-> <<>>]

MaxProgram == 2     \* entries of the Program list of a legacy page

SimpleArtistList == <<[dt |-> <<"Simone Young">>, dd |-> <<"conductor">>, has_dd |-> TRUE]>>

LegacyPages ==
    \* every Program list, one date, one conductor
    {[NoElements EXCEPT !.dates_h5 = TRUE, !.dates = SubSeq(LegacyDates, 1, 1),
                        !.program_h5 = TRUE, !.program = p,
                        !.artists_h5 = TRUE, !.artist_list = SimpleArtistList] :
        p \in SeqsUpTo(ProgramEntries, MaxProgram)}
    \cup
    \* every list of dates and every Artists list, with or without a Program
    {[NoElements EXCEPT !.dates_h5 = TRUE, !.dates = d,
                        !.program_h5 = ph, !.program =
                            IF ph THEN <<[dt |-> "BEETHOVEN", dd |-> "Symphony No.5",
                                          has_dd |-> TRUE]>>
                            ELSE <<>>,
                        !.artists_h5 = (a # <<>>), !.artist_list = a] :
        d \in DateLists(LegacyDates), a \in ArtistLists, ph \in BOOLEAN}

CurrentPages ==
    \* every Program paragraph and every list of date spans, one conductor
    {[NoElements EXCEPT !.date_spans = d,
                        !.program_h2 = TRUE, !.program_p = p,
                        !.artist_h2 = TRUE,
                        !.artist_p = <<Tag(<<"Simone Young">>, <<"Simone Young">>),
                                       Str(<<"conductor">>)>>] :
        d \in DateLists(DateSpans), p \in ProgramParagraphs}
    \cup
    \* every Artists paragraph, two dates, with or without a Program
    {[NoElements EXCEPT !.date_spans = DateSpans,
                        !.program_h2 = ph, !.program_p =
                            IF ph THEN <<Beethoven, Br, Str("Symphony No.5")>> ELSE <<>>,
                        !.artist_h2 = TRUE, !.artist_p = a] :
        a \in ArtistParagraphs, ph \in BOOLEAN}
    \cup
    \* no Artists heading
    {[NoElements EXCEPT !.date_spans = DateSpans,
                        !.program_h2 = TRUE,
                        !.program_p = <<Beethoven, Br, Str("Symphony No.5")>>]}

----------------------------------------------------------------------------
(* The parsers of the Program and Artists sections *)

RECURSIVE LegacyProgramLoop(_, _, _, _)
\* sso_parse_repertoire_legacy, lines 332-361, forgetting the composer after
\* each entry: a mutant
LegacyProgramLoopNoCarry(entries, idx, composer, repertoire_list) ==
    IF idx > Len(entries) THEN [result |-> "ok", repertoire_list |-> repertoire_list]
    ELSE IF ~entries[idx].has_dd THEN [result |-> "ValueError", repertoire_list |-> <<>>]
    ELSE LET dt_stripped == entries[idx].dt
             dd_stripped == entries[idx].dd
             plausible == ~(HasGeneralExcludeKeyword(dt_stripped)
                            \/ HasComposerExcludeKeyword(dt_stripped))
             delete == IF dt_stripped # ""
                       THEN IF plausible
                            THEN dd_stripped = "composer"
                                 \/ HasGeneralExcludeKeyword(dd_stripped)
                            ELSE TRUE
                       ELSE HasGeneralExcludeKeyword(dd_stripped)
             new_composer == IF dt_stripped # "" /\ plausible /\ dt_stripped # "And"
                             THEN StrTitle(dt_stripped)
                             ELSE ""
         IN  LegacyProgramLoop(entries, idx + 1, "",
                 IF delete \/ dd_stripped = "DELETE" THEN repertoire_list
                 ELSE Append(repertoire_list, <<dd_stripped, new_composer>>))

\* sso_parse_repertoire_legacy, lines 332-361, marking no entry for
\* exclusion: a mutant
LegacyProgramLoopKeepExcluded(entries, idx, composer, repertoire_list) ==
    IF idx > Len(entries) THEN [result |-> "ok", repertoire_list |-> repertoire_list]
    ELSE IF ~entries[idx].has_dd THEN [result |-> "ValueError", repertoire_list |-> <<>>]
    ELSE LET dt_stripped == entries[idx].dt
             dd_stripped == entries[idx].dd
             new_composer == IF dt_stripped # "" /\ dt_stripped # "And"
                             THEN StrTitle(dt_stripped)
                             ELSE composer
         IN  LegacyProgramLoop(entries, idx + 1, new_composer,
                 Append(repertoire_list, <<dd_stripped, new_composer>>))

\* sso_parse_repertoire_legacy, lines 332-361: the loop over the <dt> tags of
\* the Program list
LegacyProgramLoop(entries, idx, composer, repertoire_list) ==
    IF idx > Len(entries) THEN [result |-> "ok", repertoire_list |-> repertoire_list]
    ELSE IF ~entries[idx].has_dd THEN [result |-> "ValueError", repertoire_list |-> <<>>]
    ELSE LET dt_stripped == entries[idx].dt
             dd_stripped == entries[idx].dd
             plausible == ~(HasGeneralExcludeKeyword(dt_stripped)
                            \/ HasComposerExcludeKeyword(dt_stripped))
             delete == IF dt_stripped # ""
                       THEN IF plausible
                            THEN dd_stripped = "composer"
                                 \/ HasGeneralExcludeKeyword(dd_stripped)
                            ELSE TRUE
                       ELSE HasGeneralExcludeKeyword(dd_stripped)
             new_composer == IF dt_stripped # "" /\ plausible /\ dt_stripped # "And"
                             THEN StrTitle(dt_stripped)
                             ELSE composer
         IN  LegacyProgramLoop(entries, idx + 1, new_composer,
                 IF delete \/ dd_stripped = "DELETE" THEN repertoire_list
                 ELSE Append(repertoire_list, <<dd_stripped, new_composer>>))

\* sso_parse_repertoire_legacy: the pairs handed to Repertoire and the object
sso_parse_repertoire_legacy(concert) ==
    IF ~concert.program_h5
    THEN [result |-> "ok", repertoire_data |-> <<>>, repertoire |-> Repertoire(<<>>)]
    ELSE LET r == LegacyProgramLoop(concert.program, 1, "", <<>>)
         IN  [result |-> r.result,
              repertoire_data |-> r.repertoire_list,
              repertoire |-> Repertoire(r.repertoire_list)]

\* sso_parse_artists_legacy
sso_parse_artists_legacy(concert) ==
    IF ~concert.artists_h5
    THEN [result |-> "ok", artistconductor |-> ArtistConductor(<<>>)]
    ELSE IF \E i \in 1..Len(concert.artist_list) : ~concert.artist_list[i].has_dd
    THEN [result |-> "ValueError", artistconductor |-> ArtistConductor(<<>>)]
    ELSE [result |-> "ok",
          artistconductor |->
              ArtistConductor([i \in 1..Len(concert.artist_list) |->
                                  <<concert.artist_list[i].dd, concert.artist_list[i].dt>>])]

\* the positions in a paragraph of its tags other than <br> and its strings
ParagraphItems(contents) ==
    SelectSeq([i \in 1..Len(contents) |-> i], LAMBDA i : contents[i].kind # "br")

\* del a_list[lo:hi] (positions from 1, hi included; out-of-range positions
\* are ignored as in a Python slice)
DelSlice(a_list, lo, hi) ==
    SubSeq(a_list, 1, lo - 1) \o SubSeq(a_list, hi + 1, Len(a_list))

\* ' '.join(current_item).title()
JoinTitle(current_item) ==
    CASE current_item = <<>> -> ""
      [] Len(current_item) = 1 -> StrTitle(current_item[1])
      [] current_item = <<"BEETHOVEN", "">> -> "Beethoven "
      [] current_item = <<"MOZART", "">> -> "Mozart "
      [] current_item = <<"BEETHOVEN", "MOZART">> -> "Beethoven Mozart"
      [] current_item = <<"MOZART", "BEETHOVEN">> -> "Mozart Beethoven"
      [] current_item = <<"FIFTY FANFARES COMMISSION", "MOZART">>
            -> "Fifty Fanfares Commission Mozart"

\* node.string of a node: "none" where BeautifulSoup gives None
HasString(node) == node.kind = "str" \/ (node.kind = "tag" /\ Len(node.strings) = 1)
NodeString(node) == IF node.kind = "str" THEN node.text ELSE node.strings[1]

RECURSIVE CurrentProgramLoop(_, _, _, _, _, _)
\* sso_parse_repertoire_current, lines 380-415: the loop over
\* enumerate(program_items), which deletes from program_items as it goes.
\* next_item is <<>> while unbound, <<text>> once bound.
CurrentProgramLoop(contents, program_items, idx, composer, next_item, repertoire_list) ==
    IF idx > Len(program_items)
    THEN [result |-> "ok", repertoire_list |-> repertoire_list]
    ELSE
    LET d == program_items[idx]
        item == contents[d]
        has_next == d + 1 <= Len(contents)
        has_next2 == d + 2 <= Len(contents)
        fanfare == item.strings[1] = "FIFTY FANFARES COMMISSION"
        raise(e) == [result |-> e, repertoire_list |-> <<>>]
        go(items, comp, nxt, cur) ==
            IF nxt = <<>> THEN raise("UnboundLocalError")
            ELSE CurrentProgramLoop(contents, items, idx + 1, comp, nxt,
                     Append(repertoire_list, <<nxt[1], JoinTitle(cur)>>))
    IN  IF item.kind = "tag"
        THEN IF has_next /\ contents[d + 1].kind = "str"
             THEN IF Len(item.strings) = 2
                  THEN IF fanfare
                       THEN go(program_items, <<item.strings[2]>>,
                               <<StrTitle(item.strings[1])>>, <<"Unknown">>)
                       ELSE go(program_items, <<item.strings[2]>>, next_item, item.strings)
                  ELSE go(DelSlice(program_items, idx + 1, idx + 1), item.strings,
                          <<contents[d + 1].text>>, item.strings)
             ELSE IF fanfare
                  THEN go(program_items, composer, <<StrTitle(item.strings[1])>>,
                          <<"Unknown">>)
                  ELSE IF ~has_next THEN raise("AttributeError")
                  ELSE IF ~has_next2 THEN raise("AttributeError")
                  ELSE IF ~HasString(contents[d + 2]) THEN raise("AttributeError")
                  ELSE LET current_item == Append(item.strings, contents[d + 1].text)
                       IN  go(DelSlice(program_items, idx, idx + 1), current_item,
                              <<NodeString(contents[d + 2])>>, current_item)
        ELSE go(program_items, composer, <<item.text>>, composer)

\* sso_parse_repertoire_current
sso_parse_repertoire_current(concert) ==
    IF ~concert.program_h2
    THEN [result |-> "ok", repertoire_data |-> <<>>, repertoire |-> Repertoire(<<>>)]
    ELSE LET r == CurrentProgramLoop(concert.program_p, ParagraphItems(concert.program_p),
                                     1, <<>>, <<>>, <<>>)
         IN  [result |-> r.result,
              repertoire_data |-> r.repertoire_list,
              repertoire |-> Repertoire(r.repertoire_list)]

\* [br_tag.decompose() for br_tag in concert.find_all('br')]: the document
\* without its <br> tags
DecomposeBr(concert) ==
    [concert EXCEPT !.program_p = SelectSeq(@, LAMBDA n : n.kind # "br"),
                    !.artist_p = SelectSeq(@, LAMBDA n : n.kind # "br")]

RECURSIVE CurrentArtistLoop(_, _, _, _)
\* sso_parse_artists_current, lines 296-315: the loop over
\* enumerate(artist_items)
CurrentArtistLoop(contents, artist_items, idx, repertoire_list) ==
    IF idx > Len(artist_items) THEN repertoire_list
    ELSE
    LET d == artist_items[idx]
        item == contents[d]
        current_item == ArtistTitle(item.text)
    IN  IF item.kind = "tag" /\ d + 1 <= Len(contents) /\ contents[d + 1].kind = "str"
           /\ PartLower(item.strings[1]) # "sydney symphony orchestra musicians"
        THEN CurrentArtistLoop(contents, DelSlice(artist_items, idx + 1, idx + 1), idx + 1,
                 Append(repertoire_list, <<contents[artist_items[idx + 1]].text, current_item>>))
        ELSE CurrentArtistLoop(contents, artist_items, idx + 1,
                 Append(repertoire_list, << <<"Artist">>, current_item >>))

\* sso_parse_artists_current: the object it returns and the document as it
\* leaves it
sso_parse_artists_current(concert) ==
    LET decomposed == DecomposeBr(concert)
    IN  [concert |-> decomposed,
         artistconductor |->
             IF ~decomposed.artist_h2 THEN ArtistConductor(<<>>)
             ELSE ArtistConductor(
                      CurrentArtistLoop(decomposed.artist_p,
                                        ParagraphItems(decomposed.artist_p), 1, <<>>))]

----------------------------------------------------------------------------
(* ConcertBase / ConcertFull and sso_parse_individual_concerts *)

\* ConcertBase.year: conint(ge=2018, le=2021)
YEAR_GE == 2018
YEAR_LE == 2021

\* the year whose pages are parsed with the current strategy, line 432
CURRENT_YEAR == 2021

\* re.sub + strptime('%a %d %B, %I:%M %p') + strftime('%a %d %b, %I:%M %p') of a
\* date span, lines 434-435: TRUE when strptime accepts the text
SpanIsDate(date_str) == date_str \in Range(DateSpans)

SpanToDate(date_str) ==
    CASE date_str = "Thu 04 November\n 07:00 pm" -> "Thu 04 Nov, 07:00 PM"
      [] date_str = "Fri 05 November\n 07:00 pm" -> "Fri 05 Nov, 07:00 PM"

\* ConcertBase.check_date_format: strptime accepts the date
check_date_format(date) ==
    date \in Range(LegacyDates) \cup {SpanToDate(s) : s \in Range(DateSpans)}

\* ConcertBase._format_date: '<year>-<month>-<day> <hour>:<minute>', here the
\* year and the rest
format_date(date, year) ==
    <<year, CASE date = "Fri 27 Mar, 6:00 pm" -> "03-27 18:00"
              [] date = "Sat 28 Mar, 2:00 pm" -> "03-28 14:00"
              [] date = "Thu 04 Nov, 07:00 PM" -> "11-04 19:00"
              [] date = "Fri 05 Nov, 07:00 PM" -> "11-05 19:00">>

\* ConcertBase._format_title
format_title(title) ==
    CASE title = "Sydney Symphony Orchestra | Some Concert" -> "Some Concert"

\* ConcertFull(...).namedtuple, or the ValidationError of the constructor
ConcertFull(title, key, date, year, repertoire, artistconductor) ==
    IF year < YEAR_GE \/ year > YEAR_LE \/ ~check_date_format(date)
    THEN [result |-> "ValidationError", namedtuple |-> <<>>]
    ELSE [result |-> "ok",
          namedtuple |-> <<[Concert |-> format_title(title),
                            Key |-> key,
                            Date |-> format_date(date, year),
                            Piece |-> repertoire.pieces,
                            Composer |-> repertoire.composers,
                            Conductor |-> artistconductor.conductor,
                            Artist_Metadata |-> artistconductor.artists]>>]

\* the current parsers for every year from 2021 on: a mutant
UsesCurrentStrategyFrom2021(year) == year >= CURRENT_YEAR

\* the strategy of line 446/452: the current parsers for 2021, the legacy
\* parsers for every other year
UsesCurrentStrategy(year) == year = CURRENT_YEAR

\* the rows of the store handed to the parser
PageRows(years, key, pages) ==
    {[year |-> y, key |-> key, html_content |-> p] : y \in years, p \in pages}

FewLegacyPages ==
    {p \in LegacyPages : p.program_h5 /\ Len(p.program) = 1 /\ p.artists_h5
                         /\ Len(p.artist_list) = 1 /\ p.artist_list[1].has_dd
                         /\ p.dates # <<"TBC">>
                         /\ p.program[1] = [dt |-> "BEETHOVEN", dd |-> "Symphony No.5",
                                            has_dd |-> TRUE]}

FewCurrentPages ==
    {p \in CurrentPages : p.program_h2 /\ p.artist_h2 /\ Len(p.artist_p) = 2
                          /\ p.date_spans # <<"TBC">>
                          /\ p.program_p = <<Beethoven, Br, Str("Symphony No.5")>>}

ImportedDataFrames ==
    {<<r>> : r \in PageRows({2020}, "k1", LegacyPages)
                   \cup PageRows({2021}, "k1", CurrentPages)
                   \cup PageRows({2017, 2018, 2021, 2022}, "k1", FewLegacyPages)
                   \cup PageRows({2020, 2022}, "k1", FewCurrentPages)}
    \cup {<<r1, r2>> : r1 \in PageRows({2020, 2021}, "k1", FewLegacyPages \cup FewCurrentPages),
                       r2 \in PageRows({2020, 2021, 2022}, "k2",
                                       FewLegacyPages \cup FewCurrentPages)}

NoTable == [exists |-> FALSE, rows |-> <<>>]

InitParse ==
    /\ df_imported_db \in ImportedDataFrames
    /\ ppc = "row"
    /\ prow = 1
    /\ pdate = 1
    /\ cdate = <<>>
    /\ parsed_concerts = <<>>
    /\ raw_table = NoTable
    /\ perr = ""
    /\ strategy = ""

\* sso_parse_individual_concerts, lines 425-437: the title and the dates of
\* the next row
ExtractDates ==
    /\ ppc = "row"
    /\ prow <= Len(df_imported_db)
    /\ LET year == df_imported_db[prow].year
           event == df_imported_db[prow].html_content
       IN  IF UsesCurrentStrategy(year)
           THEN IF \E i \in 1..Len(event.date_spans) : ~SpanIsDate(event.date_spans[i])
                THEN /\ ppc' = "failed"
                     /\ perr' = "ValueError"
                     /\ UNCHANGED cdate
                ELSE /\ cdate' = [i \in 1..Len(event.date_spans) |->
                                     SpanToDate(event.date_spans[i])]
                     /\ ppc' = "dates"
                     /\ UNCHANGED perr
           ELSE IF ~event.dates_h5
                THEN /\ ppc' = "failed"
                     /\ perr' = "AttributeError"
                     /\ UNCHANGED cdate
                ELSE /\ cdate' = event.dates
                     /\ ppc' = "dates"
                     /\ UNCHANGED perr
    /\ pdate' = 1
    /\ strategy' = IF UsesCurrentStrategy(df_imported_db[prow].year) THEN "current"
                   ELSE "legacy"
    /\ UNCHANGED <<df_imported_db, prow, parsed_concerts, raw_table>>
    /\ UNCHANGED <<repertoireVars, artistVars>>
    /\ UNCHANGED <<storeVars, mergeVars, keysVars, cleanVars>>

\* sso_parse_individual_concerts, lines 450-461: the loop body for one date.
\* For 2021 the repertoire is parsed first, then the artists, and
\* sso_parse_artists_current removes the <br> tags of the row's document.
ParseDate ==
    /\ ppc = "dates"
    /\ pdate <= Len(cdate)
    /\ LET row == df_imported_db[prow]
           event == row.html_content
           current == UsesCurrentStrategy(row.year)
           rep == IF current THEN sso_parse_repertoire_current(event)
                  ELSE sso_parse_repertoire_legacy(event)
           art == sso_parse_artists_current(event)
           legacy_art == sso_parse_artists_legacy(event)
           conductor_artists == IF current THEN art.artistconductor
                                ELSE legacy_art.artistconductor
           concert_combined == ConcertFull(event.title, row.key, cdate[pdate], row.year,
                                           rep.repertoire, conductor_artists)
           e == IF rep.result # "ok" THEN rep.result
                ELSE IF ~current /\ legacy_art.result # "ok" THEN legacy_art.result
                ELSE IF concert_combined.result # "ok" THEN concert_combined.result
                ELSE ""
       IN  /\ df_imported_db' = IF current /\ rep.result = "ok"
                                THEN [df_imported_db EXCEPT ![prow].html_content = art.concert]
                                ELSE df_imported_db
           /\ IF e # ""
              THEN /\ ppc' = "failed"
                   /\ perr' = e
                   /\ UNCHANGED <<parsed_concerts, pdate>>
              ELSE /\ parsed_concerts' = parsed_concerts \o concert_combined.namedtuple
                   /\ pdate' = pdate + 1
                   /\ UNCHANGED <<ppc, perr>>
    /\ strategy' = IF UsesCurrentStrategy(df_imported_db[prow].year) THEN "current"
                   ELSE "legacy"
    /\ UNCHANGED <<prow, cdate, raw_table>>
    /\ UNCHANGED <<repertoireVars, artistVars>>
    /\ UNCHANGED <<storeVars, mergeVars, keysVars, cleanVars>>

\* the dates of the row are exhausted: on to the next row
NextRow ==
    /\ ppc = "dates"
    /\ pdate > Len(cdate)
    /\ prow' = prow + 1
    /\ ppc' = "row"
    /\ UNCHANGED <<df_imported_db, pdate, cdate, parsed_concerts, raw_table, perr,
                   strategy>>
    /\ UNCHANGED <<repertoireVars, artistVars>>
    /\ UNCHANGED <<storeVars, mergeVars, keysVars, cleanVars>>

\* main(), lines 480-486: the parsed table is written
WriteTable ==
    /\ ppc = "row"
    /\ prow > Len(df_imported_db)
    /\ raw_table' = [exists |-> TRUE, rows |-> parsed_concerts]
    /\ ppc' = "done"
    /\ UNCHANGED <<df_imported_db, prow, pdate, cdate, parsed_concerts, perr, strategy>>
    /\ UNCHANGED <<repertoireVars, artistVars>>
    /\ UNCHANGED <<storeVars, mergeVars, keysVars, cleanVars>>

NextParse ==
    \/ ExtractDates
    \/ ParseDate
    \/ NextRow
    \/ WriteTable

----------------------------------------------------------------------------
(* 4-sso_clean_2018_2021_concerts.py: the manual cleaner.  A table is a    *)
(* sequence of rows [Concert, Key, Piece, Composer, Conductor,             *)
(* Artist_Metadata]; an artist is a pair <<role, name>>.  The regular      *)
(* expressions and str.lower() are tabulated on the texts of the model;    *)
(* diacritics and the trademark sign of the source's texts are left out.   *)

MaxMapRows == 2     \* rows of the composer name map file

\* a row whose every column is NaN
NaNRow == [Concert |-> "NaN", Key |-> "NaN", Piece |-> <<>>, Composer |-> <<>>,
           Conductor |-> "NaN", Artist_Metadata |-> <<>>]

\* _preclean_extraneous_rows
preclean_extraneous_rows(sso_df) ==
    SelectSeq(sso_df, LAMBDA row :
        /\ row.Key # "tom-stoppard-and-andre-previns-every-good-boy-deserves-favour"
        /\ row # NaNRow)

\* _clean_artists
clean_artists(sso_df) ==
    [i \in 1..Len(sso_df) |->
        LET row == sso_df[i]
        IN  CASE row.Key = "ben-folds-the-symphonic-tour" ->
                   [row EXCEPT !.Artist_Metadata = << <<"Artist", "Ben Folds">> >>]
              [] row.Key = "eskimo-joe" ->
                   [row EXCEPT !.Artist_Metadata = << <<"Artist", "Eskimo Joe">> >>]
              [] row.Key = "johann-johannsson-last-and-first-men" ->
                   [row EXCEPT !.Artist_Metadata =
                       << <<"Narrator", "Tilda Swinton">>, <<"Harmonium", "Yair Glotman">>,
                          <<"Vocalist", "Else Torp">>, <<"Vocalist", "Kate Macoboy">> >>]
              [] OTHER -> row]

\* _clean_conductors
clean_conductors(sso_df) ==
    [i \in 1..Len(sso_df) |->
        LET row == sso_df[i]
        IN  CASE row.Key = "introduced-species-at-sydney-ideas" ->
                   [row EXCEPT !.Conductor = "Iain Grandage"]
              [] row.Key = "music-of-count-basie-and-duke-ellington" ->
                   [row EXCEPT !.Conductor = "Wynton Marsalis"]
              [] OTHER -> row]

\* _clean_pieces, lines 69-74
keys_to_update ==
    {"blue-planet-2-live-in-concert", "casino-royale-in-concert",
     "disney-in-concert-mary-poppins", "funny-girl",
     "harry-potter-and-the-half-blood-prince-in-concert",
     "harry-potter-and-the-order-of-the-phoenix-in-concert",
     "harry-potter-and-the-prisoner-of-azkaban",
     "johann-johannsson-last-and-first-men", "planet-earth-ii-live-in-concert",
     "skyfall-in-concert", "star-wars-a-new-hope", "star-wars-return-of-the-jedi",
     "star-wars-the-empire-strikes-back", "star-wars-the-force-awakens"}

\* key.startswith(('blue-planet', 'casino', 'harry-potter', 'planet-earth',
\* 'skyfall', 'star-wars'))
IsFilmScoreKey(key) ==
    key \in {"blue-planet-2-live-in-concert", "casino-royale-in-concert",
             "harry-potter-and-the-half-blood-prince-in-concert",
             "harry-potter-and-the-order-of-the-phoenix-in-concert",
             "harry-potter-and-the-prisoner-of-azkaban",
             "planet-earth-ii-live-in-concert", "skyfall-in-concert",
             "star-wars-a-new-hope", "star-wars-return-of-the-jedi",
             "star-wars-the-empire-strikes-back", "star-wars-the-force-awakens"}

\* line 77: the title without a final "in concert", followed by " Film Score"
FilmScoreTitle(title) ==
    CASE title = "Star Wars: A New Hope in Concert" -> "Star Wars: A New Hope Film Score"
      [] title = "Funny Girl" -> "Funny Girl Film Score"
      [] title = "Disney in Concert: Mary Poppins" ->
            "Disney in Concert: Mary Poppins Film Score"
      [] title = "Johann Johannsson's Last and First Men" ->
            "Johann Johannsson's Last and First Men Film Score"
      [] title = "Some Concert" -> "Some Concert Film Score"

\* line 79: re.sub(r'(\w.+) (in concert)', r'\1', title, flags=re.IGNORECASE).strip()
InConcertRemoved(title) ==
    CASE title = "Star Wars: A New Hope in Concert" -> "Star Wars: A New Hope"
      [] title = "Disney in Concert: Mary Poppins" -> "Disney: Mary Poppins"
      [] OTHER -> title

\* line 81: re.sub(r'((disney in concert:)|(johann johannsson's)) (\w.+)',
\* r'\4 Film Score', title, flags=re.IGNORECASE).strip()
NamedFilmScoreTitle(title) ==
    CASE title = "Disney in Concert: Mary Poppins" -> "Mary Poppins Film Score"
      [] title = "Johann Johannsson's Last and First Men" -> "Last and First Men Film Score"
      [] OTHER -> title

\* _clean_pieces
clean_pieces(sso_df) ==
    LET from_composer == [i \in 1..Len(sso_df) |->
            IF sso_df[i].Key = "james-morrison-with-the-sydney-symphony-orchestra"
            THEN [sso_df[i] EXCEPT !.Piece = sso_df[i].Composer]
            ELSE sso_df[i]]
        no_conductor == [i \in 1..Len(sso_df) |->
            IF from_composer[i].Key = "introduced-species-at-sydney-ideas"
            THEN [from_composer[i] EXCEPT !.Piece =
                     SelectSeq(from_composer[i].Piece, LAMBDA p : p # "conductor")]
            ELSE from_composer[i]]
    IN  [i \in 1..Len(sso_df) |->
            LET row == no_conductor[i]
            IN  IF row.Key \notin keys_to_update THEN row
                ELSE IF IsFilmScoreKey(row.Key)
                THEN [row EXCEPT !.Piece = <<FilmScoreTitle(row.Concert)>>]
                ELSE IF row.Key = "funny-girl"
                THEN [row EXCEPT !.Piece = <<InConcertRemoved(row.Concert)>>]
                ELSE [row EXCEPT !.Piece = <<NamedFilmScoreTitle(row.Concert)>>]]

\* _clean_composers, lines 102-113
missing_dict ==
    [key \in {"eskimo-joe", "evanescence", "paloma-faith-with-the-sso", "thum-prints",
              "johann-johannsson-last-and-first-men", "funny-girl",
              "disney-in-concert-mary-poppins",
              "harry-potter-and-the-half-blood-prince-in-concert",
              "harry-potter-and-the-order-of-the-phoenix-in-concert",
              "harry-potter-and-the-prisoner-of-azkaban", "star-wars-a-new-hope",
              "star-wars-return-of-the-jedi", "star-wars-the-empire-strikes-back",
              "star-wars-the-force-awakens", "planet-earth-ii-live-in-concert",
              "blue-planet-2-live-in-concert",
              "james-morrison-with-the-sydney-symphony-orchestra",
              "lea-salonga-in-concert-with-the-sydney-symphony-orchestra"} |->
        CASE key = "eskimo-joe" -> <<"Eskimo Joe">>
          [] key = "evanescence" -> <<"Evanescence">>
          [] key = "paloma-faith-with-the-sso" -> <<"Paloma Faith">>
          [] key = "thum-prints" -> <<"Gordon Hamilton">>
          [] key = "johann-johannsson-last-and-first-men" -> <<"Johann Johannsson">>
          [] key = "funny-girl" -> <<"Jule Styne">>
          [] key = "disney-in-concert-mary-poppins" -> <<"Robert B. and Richard M. Sherman">>
          [] key = "planet-earth-ii-live-in-concert" -> <<"Hans Zimmer">>
          [] key = "blue-planet-2-live-in-concert" -> <<"Hans Zimmer">>
          [] key = "james-morrison-with-the-sydney-symphony-orchestra" ->
                <<"Cole Porter", "George Gershwin", "George Gershwin", "Duke Ellington">>
          [] key = "lea-salonga-in-concert-with-the-sydney-symphony-orchestra" ->
                <<"Claude-Michel Schonberg", "Benj Pasek and Justin Paul">>
          [] OTHER -> <<"John Williams">>]

\* line 118: re.sub(r'^(\w.+)( (After|Arr.|Orch.|\(?Text By|Trans.) \w.+)$', r'\1',
\* composer).replace('&', 'and')
SanitiseComposer(composer) ==
    CASE composer = "Bach Arr. Stokowski" -> "Bach"
      [] composer = "Bach Arr. Stokowski Orch. Smith" -> "Bach Arr. Stokowski"
      [] composer = "Simon & Garfunkel" -> "Simon and Garfunkel"
      [] OTHER -> composer

\* artist[0].lower() == 'composer'
IsComposerRole(role) == role \in {"Composer", "composer"}

\* _clean_composers
clean_composers(sso_df) ==
    LET no_grandage == [i \in 1..Len(sso_df) |->
            IF sso_df[i].Key = "introduced-species-at-sydney-ideas"
            THEN [sso_df[i] EXCEPT !.Composer =
                     SelectSeq(sso_df[i].Composer, LAMBDA c : c # "Iain Grandage")]
            ELSE sso_df[i]]
        am_composer_keys ==
            {no_grandage[i].Key : i \in {j \in 1..Len(sso_df) :
                /\ no_grandage[j].Composer = <<"Unknown">>
                /\ Len(no_grandage[j].Artist_Metadata) = 1
                /\ IsComposerRole(no_grandage[j].Artist_Metadata[1][1])}}
        imputed == [i \in 1..Len(sso_df) |->
            IF no_grandage[i].Key \in am_composer_keys
            THEN [no_grandage[i] EXCEPT !.Composer =
                     [k \in 1..Len(no_grandage[i].Artist_Metadata) |->
                         no_grandage[i].Artist_Metadata[k][2]]]
            ELSE no_grandage[i]]
        manual == [i \in 1..Len(sso_df) |->
            IF imputed[i].Key \in DOMAIN missing_dict
            THEN [imputed[i] EXCEPT !.Composer = missing_dict[imputed[i].Key]]
            ELSE imputed[i]]
    IN  [i \in 1..Len(sso_df) |->
            [manual[i] EXCEPT !.Composer =
                [k \in 1..Len(manual[i].Composer) |->
                    SanitiseComposer(manual[i].Composer[k])]]]

\* SSOClean(sso_raw_df).df
SSOClean(sso_raw_df) ==
    clean_conductors(clean_composers(clean_pieces(clean_artists(
        preclean_extraneous_rows(sso_raw_df)))))

\* name.lower()
NameLower(name) ==
    CASE name = "Beethoven" -> "beethoven"
      [] name = "BEETHOVEN" -> "beethoven"
      [] name = "Ludwig van Beethoven" -> "ludwig van beethoven"
      [] name = "Mozart" -> "mozart"
      [] name = "Unknown" -> "unknown"
      [] name = "Bach" -> "bach"
      [] OTHER -> name

\* the rows of the map file whose lower-cased Composer is the lower-cased name
MapRowsOf(map_rows, name) ==
    {k \in 1..Len(map_rows) : NameLower(map_rows[k].Composer) = NameLower(name)}

\* line 154 with composer in name_dict instead of composer.lower() in
\* name_dict: a mutant
fix_composer_name_spellings_exact(sso_cleaned_df, map_rows) ==
    [i \in 1..Len(sso_cleaned_df) |->
        [sso_cleaned_df[i] EXCEPT !.Composer =
            [k \in 1..Len(sso_cleaned_df[i].Composer) |->
                LET composer == sso_cleaned_df[i].Composer[k]
                    found == {r \in 1..Len(map_rows) : map_rows[r].Composer = composer}
                IN  IF found # {} THEN map_rows[SetMax(found)].ComposerFullName
                    ELSE composer]]]

\* fix_composer_name_spellings, lines 151-155: name_dict is
\* dict(zip(lower-cased Composer, ComposerFullName)), the last row of a key wins
fix_composer_name_spellings(sso_cleaned_df, map_rows) ==
    [i \in 1..Len(sso_cleaned_df) |->
        [sso_cleaned_df[i] EXCEPT !.Composer =
            [k \in 1..Len(sso_cleaned_df[i].Composer) |->
                LET composer == sso_cleaned_df[i].Composer[k]
                    found == MapRowsOf(map_rows, composer)
                IN  IF found # {} THEN map_rows[SetMax(found)].ComposerFullName
                    ELSE composer]]]

\* the title of the concert of a key
TitleOf(key) ==
    CASE key = "star-wars-a-new-hope" -> "Star Wars: A New Hope in Concert"
      [] key = "funny-girl" -> "Funny Girl"
      [] key = "disney-in-concert-mary-poppins" -> "Disney in Concert: Mary Poppins"
      [] key = "johann-johannsson-last-and-first-men" ->
            "Johann Johannsson's Last and First Men"
      [] OTHER -> "Some Concert"

RawRow(key, piece, composer, conductor_name, artist_metadata) ==
    [Concert |-> TitleOf(key), Key |-> key, Piece |-> piece, Composer |-> composer,
     Conductor |-> conductor_name, Artist_Metadata |-> artist_metadata]

RawKeys ==
    {"k1", "tom-stoppard-and-andre-previns-every-good-boy-deserves-favour",
     "james-morrison-with-the-sydney-symphony-orchestra",
     "introduced-species-at-sydney-ideas", "eskimo-joe", "ben-folds-the-symphonic-tour",
     "star-wars-a-new-hope", "funny-girl", "disney-in-concert-mary-poppins",
     "johann-johannsson-last-and-first-men", "music-of-count-basie-and-duke-ellington"}

RawComposers ==
    {<<"Unknown">>, <<"Beethoven">>, <<"Bach Arr. Stokowski">>,
     <<"Bach Arr. Stokowski Orch. Smith">>, <<"Simon & Garfunkel">>,
     <<"Iain Grandage", "Beethoven">>, <<"Night And Day", "Summertime">>}

RawPieces == {<<"Various">>, <<"Symphony No.5">>, <<"conductor", "Symphony No.5">>}

RawArtists ==
    {<< <<"Artist", "Unknown">> >>,
     << <<"Composer", "Nigel Westlake">> >>,
     << <<"Piano", "John Doe">>, <<"Conductor", "Simone Young">> >>}

\* the tables of the raw pickle file: one row of every kind, or two rows of
\* one concert, or a row and a NaN row
RawTables ==
    {<<RawRow(key, piece, composer, conductor_name, am)>> :
        key \in RawKeys, piece \in RawPieces, composer \in RawComposers,
        conductor_name \in {"Unknown", "Simone Young"}, am \in RawArtists}
    \cup
    {<<RawRow("k1", <<"Various">>, c1, "Unknown", am1),
       RawRow("k1", <<"Various">>, c2, "Unknown", am2)>> :
        c1 \in {<<"Unknown">>, <<"Beethoven">>}, c2 \in {<<"Unknown">>, <<"Beethoven">>},
        am1 \in RawArtists, am2 \in RawArtists}
    \cup
    {<<NaNRow, RawRow("k1", <<"Various">>, <<"Beethoven">>, "Unknown",
                      << <<"Artist", "Unknown">> >>)>>}

MapNames == {"Beethoven", "BEETHOVEN", "Ludwig van Beethoven"}

NoMapFile == [exists |-> FALSE, rows |-> <<>>]

SimpleMapFile ==
    [exists |-> TRUE,
     rows |-> <<[Composer |-> "Beethoven", ComposerFullName |-> "Ludwig van Beethoven"]>>]

\* the composer name map files of the operator
MapFiles ==
    {NoMapFile} \cup
    {[exists |-> TRUE, rows |-> rows] :
        rows \in SeqsUpTo([Composer : MapNames, ComposerFullName : MapNames], MaxMapRows)}

\* the tables cleaned with every map file
MapTables ==
    {<<RawRow("k1", <<"Various">>, composer, "Unknown", << <<"Artist", "Unknown">> >>)>> :
        composer \in {<<"Beethoven">>, <<"BEETHOVEN", "Mozart">>,
                      <<"Ludwig van Beethoven">>}}

NoCleanedTable == [exists |-> FALSE, rows |-> <<>>]

InitClean ==
    /\ \/ /\ sso_raw \in RawTables
          /\ sso_composer_map_file = SimpleMapFile
       \/ /\ sso_raw \in MapTables
          /\ sso_composer_map_file \in MapFiles
    /\ sso_cleaned = <<>>
    /\ cleaned_table = NoCleanedTable
    /\ cpc = "loaded"

\* main(), line 176: sso_cleaned = SSOClean(sso_raw).df
CleanRaw ==
    /\ cpc = "loaded"
    /\ sso_cleaned' = SSOClean(sso_raw)
    /\ cpc' = "cleaned"
    /\ UNCHANGED <<sso_raw, sso_composer_map_file, cleaned_table>>
    /\ UNCHANGED <<storeVars, mergeVars, keysVars, parseVars>>

\* main(), line 183: sso_cleaned = SSOClean.fix_composer_name_spellings(...);
\* a map file that cannot be opened ends the process (sys.exit(1))
FixSpellings ==
    /\ cpc = "cleaned"
    /\ IF ~sso_composer_map_file.exists
       THEN /\ cpc' = "exit"
            /\ UNCHANGED sso_cleaned
       ELSE /\ sso_cleaned' = fix_composer_name_spellings(sso_cleaned,
                                                          sso_composer_map_file.rows)
            /\ cpc' = "fixed"
    /\ UNCHANGED <<sso_raw, sso_composer_map_file, cleaned_table>>
    /\ UNCHANGED <<storeVars, mergeVars, keysVars, parseVars>>

\* main(), lines 187-190: the cleaned table is written
WriteCleaned ==
    /\ cpc = "fixed"
    /\ cleaned_table' = [exists |-> TRUE, rows |-> sso_cleaned]
    /\ cpc' = "done"
    /\ UNCHANGED <<sso_raw, sso_composer_map_file, sso_cleaned>>
    /\ UNCHANGED <<storeVars, mergeVars, keysVars, parseVars>>

NextClean ==
    \/ CleanRaw
    \/ FixSpellings
    \/ WriteCleaned

----------------------------------------------------------------------------
(* Specifications: one per program, the other programs idle *)
IdleStore ==
    /\ events = [y \in StoreYears |-> NoDir]
    /\ db = NoDb
    /\ orig = NoDb
    /\ pc = "off"
    /\ mode = "none"
    /\ args = NoArgs
    /\ yi = 1
    /\ master_concert_list = <<>>
    /\ sqlite_df = <<>>
    /\ year_list = <<>>
    /\ reported = <<>>
    /\ err = ""
    /\ db0 = NoDb
    /\ orig0 = NoDb
    /\ nbackup = 0
    /\ runs = 0

IdleMerge ==
    /\ old_json_file = NoJson
    /\ new_json_file = NoJson
    /\ merged_json_content = NoJson
    /\ export_json = NoJson
    /\ mpc = "off"

IdleKeys ==
    /\ html_calendar_files = [m \in Range(SSO_SEASON_MONTHS) |-> NoHtml]
    /\ json_calendar_file = NoCalendarJson
    /\ export_csv = [y \in KeyYears |-> NoCsv]
    /\ old_file = [y \in KeyYears |-> NoCsv]
    /\ csv_tempfile = NoCsv
    /\ kpc = "off"
    /\ years_arg = <<>>
    /\ ki = 1
    /\ calendar_df = {}
    /\ klog = <<>>
    /\ kfails = 0
    /\ kruns = 0

IdleRepertoire ==
    /\ repertoire_data = <<>>
    /\ composers = <<>>
    /\ pieces = <<>>
    /\ rpc = "off"

IdleArtists ==
    /\ artist_data = <<>>
    /\ conductor = DEFAULT_CONDUCTOR
    /\ artists = <<>>
    /\ apc = "off"

IdleConcerts ==
    /\ df_imported_db = <<>>
    /\ ppc = "off"
    /\ prow = 1
    /\ pdate = 1
    /\ cdate = <<>>
    /\ parsed_concerts = <<>>
    /\ raw_table = NoTable
    /\ perr = ""
    /\ strategy = ""

IdleParse == IdleRepertoire /\ IdleArtists /\ IdleConcerts

IdleClean ==
    /\ sso_raw = <<>>
    /\ sso_composer_map_file = NoMapFile
    /\ sso_cleaned = <<>>
    /\ cleaned_table = NoCleanedTable
    /\ cpc = "idle"

InitStoreOnly == InitStore /\ IdleMerge /\ IdleKeys /\ IdleParse /\ IdleClean

InitMergeOnly == InitMerge /\ IdleStore /\ IdleKeys /\ IdleParse /\ IdleClean

InitKeysOnly == InitKeys /\ IdleStore /\ IdleMerge /\ IdleParse /\ IdleClean

InitRepertoireOnly ==
    InitRepertoire /\ IdleArtists /\ IdleConcerts /\ IdleStore /\ IdleMerge /\ IdleKeys
        /\ IdleClean

InitArtistsOnly ==
    InitArtists /\ IdleRepertoire /\ IdleConcerts /\ IdleStore /\ IdleMerge /\ IdleKeys
        /\ IdleClean

InitParseOnly ==
    InitParse /\ IdleRepertoire /\ IdleArtists /\ IdleStore /\ IdleMerge /\ IdleKeys
        /\ IdleClean

SpecStore == InitStoreOnly /\ [][NextStore]_vars

SpecMerge == InitMergeOnly /\ [][NextMerge]_vars

SpecKeys == InitKeysOnly /\ [][NextKeys]_vars

SpecRepertoire == InitRepertoireOnly /\ [][NextRepertoire]_vars

SpecArtists == InitArtistsOnly /\ [][NextArtists]_vars

SpecParse == InitParseOnly /\ [][NextParse]_vars

InitCleanOnly == InitClean /\ IdleStore /\ IdleMerge /\ IdleKeys /\ IdleParse

SpecClean == InitCleanOnly /\ [][NextClean]_vars

----------------------------------------------------------------------------
(* Properties of the importer and the store *)

DfYears == {sqlite_df[i].year : i \in 1..Len(sqlite_df)}

RowsOfYear(df, y) == SelectSeq(df, LAMBDA row : row.year = y)

\* the running call has entered the table loop of export_html_to_sqlite_db
InExport == sqlite_df # <<>> /\ pc \in {"to_sql", "done", "failed"}

\* every table the store held when the call started is still there, unchanged
ExistingTablesKept ==
    \A y \in db0.names : y \in db.names /\ db.tables[y] = db0.tables[y]

NoDuplicateKeys(rows) ==
    \A i, j \in 1..Len(rows) : i # j => rows[i].key # rows[j].key

\* C1: an export with append=False of a year whose table the store already
\* holds never completes (it raises), and the tables the store held before the
\* call keep exactly their rows.
C1_AppendFalseFailsAndKeepsTable ==
    (InExport /\ ~args.append_records) =>
        /\ ExistingTablesKept
        /\ (DfYears \cap db0.names # {}) =>
              /\ pc # "done"
              /\ ~(pc = "to_sql" /\ year_list = <<>>)

C1_Witness ==
    /\ pc = "failed" /\ err = "export" /\ ~args.append_records
    /\ Head(year_list) \in db0.names
    /\ db0.tables[Head(year_list)] # <<>>
    /\ db.tables[Head(year_list)] = db0.tables[Head(year_list)]

C3_ImportFailureWritesNothing ==
    (mode = "main" /\ (pc = "import" \/ (pc = "failed" /\ err = "import"))) =>
        db = db0 /\ orig = orig0

C3_Witness ==
    /\ mode = "main" /\ pc = "failed" /\ err = "import"
    /\ master_concert_list # <<>>
    /\ ~args.dry_run

\* C4 as claimed: when an export ends in a store conflict, no table of any year
\* has been created or changed.
C4_ConflictWritesNothing ==
    (pc = "failed" /\ err \in {"path", "export"}) => db.names = db0.names /\ db.tables = db0.tables

\* C4 amended: when an export ends in a store conflict, every table the store
\* held before is unchanged; a conflict on the store file (importer validation)
\* leaves the store untouched; a conflict on a table leaves that table untouched
\* and the only tables created are those of the exported years sorted before
\* the conflicting year, each holding that year's rows.
C4_ConflictKeepsExistingTables ==
    (pc = "failed" /\ err \in {"path", "export"}) =>
        /\ ExistingTablesKept
        /\ err = "path" => db = db0 /\ orig = orig0
        /\ err = "export" =>
              /\ Head(year_list) \in db0.names
              /\ \A y \in db.names \ db0.names :
                    /\ y \in DfYears
                    /\ y < Head(year_list)
                    /\ db.tables[y] = RowsOfYear(sqlite_df, y)

C4_Witness ==
    /\ pc = "failed" /\ err = "export"
    /\ db.names # db0.names
    /\ Cardinality(DfYears) = 2

\* C5: an importer run whose append flag does not match the existence of the
\* store file (append without a store file, or no append with a store file
\* present) raises before writing; so a run that writes to a store file that
\* existed before it is an append run, and an append run only ever writes to a
\* store file that existed.
C5_WritesOnlyAsValidated ==
    mode = "main" =>
        /\ (args.append_records # db0.exists) => (pc = "failed" /\ db = db0 /\ orig = orig0)
        /\ (db # db0 /\ db0.exists) => args.append_records
        /\ (db # db0 /\ args.append_records) => db0.exists

C5_Witness ==
    /\ mode = "main" /\ ~args.append_records /\ db0.exists
    /\ pc = "failed" /\ err = "path"

\* C6: before the backup step of an export the store is untouched; after it,
\* if the store file existed when the export started, the backup equals the
\* store as it was then and exactly one copy has been made, however many
\* tables are written; if it did not exist no copy is made.
C6_BackupOncePerExport ==
    /\ (pc = "export") => (db = db0 /\ nbackup = 0)
    /\ InExport =>
          IF db0.exists THEN orig = db0 /\ nbackup = 1
          ELSE orig = orig0 /\ nbackup = 0

C6_Witness ==
    /\ pc = "done" /\ db0.exists /\ Cardinality(DfYears) = 2
    /\ db.tables[2021] # db0.tables[2021]
    /\ db.tables[2022] # db0.tables[2022]
    /\ orig = db0 /\ nbackup = 1

LoadedFiles(y) ==
    IF args.concert_keys # <<>>
    THEN {Append(args.concert_keys[i], "html") : i \in 1..Len(args.concert_keys)}
    ELSE {f \in Range(EventFiles) : events[y].st[f] # "absent"}

Occurrences(seq, x) == Cardinality({i \in 1..Len(seq) : seq[i] = x})

----------------------------------------------------------------------------
(* Properties of the calendar JSON merger *)

OldUrls == {old_json_file.data[i].url : i \in {j \in 1..Len(old_json_file.data) :
                                                   old_json_file.data[j].has_url}}

\* C9 as claimed: the merged data is old's entries in order followed by exactly
\* the entries of new whose url is not the url of any old entry, the metadata
\* is new's (every entry carrying a url).
C9_MergeAppendsEveryAbsentUrl ==
    (mpc = "merged"
        /\ \A i \in 1..Len(old_json_file.data) : old_json_file.data[i].has_url) =>
        /\ merged_json_content.data =
              old_json_file.data
              \o SelectSeq(new_json_file.data, LAMBDA c : c.url \notin OldUrls)
        /\ merged_json_content.meta = new_json_file.meta

\* C9 amended: the merged data is old's entries in order followed by exactly
\* the entries of new whose url is non-empty and is not the url of any old
\* entry, the metadata is new's; with no such entry the data is old's data.
C9_MergeAppendsNonEmptyAbsentUrls ==
    (mpc = "merged") =>
        /\ merged_json_content.data =
              old_json_file.data
              \o SelectSeq(new_json_file.data,
                           LAMBDA c : c.url # <<>> /\ c.url \notin OldUrls)
        /\ merged_json_content.meta = new_json_file.meta
        /\ (\A i \in 1..Len(new_json_file.data) :
                new_json_file.data[i].url = <<>> \/ new_json_file.data[i].url \in OldUrls)
              => merged_json_content.data = old_json_file.data

C9_Witness ==
    /\ mpc = "merged"
    /\ Len(old_json_file.data) = 1
    /\ Len(new_json_file.data) = 2
    /\ new_json_file.data[1] = old_json_file.data[1]
    /\ Len(merged_json_content.data) = 2
    /\ merged_json_content.data[2] = new_json_file.data[2]
    /\ merged_json_content.meta = "meta-new"

----------------------------------------------------------------------------
(* Properties of the calendar key extractor *)

\* the keys of a year as a function of the set of entries of its calendar
\* files, whatever their order in the files
EntryKeys(year) ==
    IF year >= JSON_CALENDAR_START_YEAR
    THEN {c.url[Len(c.url)] :
            c \in {d \in Range(JsonFileOf(year).data) :
                      d.concertSeason = year /\ d.has_url /\ d.url # <<>>}}
    ELSE {n.href[Len(n.href)] :
            n \in {r \in UNION {Range(HtmlFileOf(year, m).rows) :
                                    m \in Range(SSO_SEASON_MONTHS)} : r.has_anchor}}

KeyRank(k) == CHOOSE i \in 1..Len(SortedKeys) : SortedKeys[i] = k

\* seq lists the keys of S once each, in increasing order
IsSortedListOf(seq, S) ==
    /\ Range(seq) = S
    /\ \A i, j \in 1..Len(seq) : i < j => KeyRank(seq[i]) < KeyRank(seq[j])

\* C10: the key set extracted for a year, and every CSV written for it (the
\* temporary file, the exported CSV, and the backup of the CSV of an earlier
\* run), depend only on the set of entries of the year's calendar files: the
\* same keys, sorted, in every run and for every order of the entries.
C10_KeysDependOnEntrySetOnly ==
    /\ kpc \in {"temp", "rename", "move"} =>
          /\ calendar_df = EntryKeys(years_arg[ki])
          /\ csv_tempfile.exists =>
                IsSortedListOf(csv_tempfile.content, EntryKeys(years_arg[ki]))
    /\ \A y \in KeyYears :
          /\ export_csv[y].exists => IsSortedListOf(export_csv[y].content, EntryKeys(y))
          /\ old_file[y].exists => IsSortedListOf(old_file[y].content, EntryKeys(y))

\* the second run has rewritten the CSV of a year whose month file lists two
\* keys in descending order
C10_Witness ==
    /\ kruns = 2
    /\ Len(html_calendar_files["February"].rows) = 2
    /\ html_calendar_files["February"].rows[1].href = <<"sso", "k2">>
    /\ html_calendar_files["February"].rows[2].href = <<"alt", "k1">>
    /\ export_csv[HtmlYear].exists
    /\ old_file[HtmlYear].exists
    /\ export_csv[HtmlYear].content = <<"k1", "k2">>
    /\ old_file[HtmlYear].content = export_csv[HtmlYear].content

\* the keys of the calendar-entry nodes of a month file of the HTML year
MonthKeys(month) ==
    {LastSegment(r.href) :
        r \in {n \in Range(html_calendar_files[month].rows) : n.has_anchor}}

SomeMonthUnreadable ==
    \E m \in Range(SSO_SEASON_MONTHS) : html_calendar_files[m].status # "ok"

EveryNodeHasAnchor ==
    \A m \in Range(SSO_SEASON_MONTHS) :
        \A i \in 1..Len(html_calendar_files[m].rows) :
            html_calendar_files[m].rows[i].has_anchor

\* C11: a month file of an HTML-calendar year that loads without any
\* calendar-entry node contributes no keys and does not fail the year (the
\* keys are those of the other months, the year is never skipped for an
\* error); a month file that is missing aborts the year: no keys are returned
\* and no CSV is ever written for the year.
C11_EmptyMonthSkippedUnreadableAborts ==
    /\ SomeMonthUnreadable =>
          /\ create_sso_calendar_key_df(HtmlYear).result \in {"OSError", "TypeError"}
          /\ create_sso_calendar_key_df(HtmlYear).keys = {}
          /\ ~export_csv[HtmlYear].exists
          /\ ~old_file[HtmlYear].exists
          /\ kpc \in {"temp", "rename", "move"} => years_arg[ki] # HtmlYear
    /\ (~SomeMonthUnreadable /\ EveryNodeHasAnchor) =>
          /\ create_sso_calendar_key_df(HtmlYear).result = "ok"
          /\ create_sso_calendar_key_df(HtmlYear).keys =
                UNION {MonthKeys(m) : m \in Range(SSO_SEASON_MONTHS)}
          /\ \A i \in 1..Len(klog) : klog[i] # <<HtmlYear, "skipped: error">>

\* the year was skipped for its missing March file although February lists a
\* key
C11_Witness ==
    /\ kpc = "finished"
    /\ html_calendar_files["March"].status = "missing"
    /\ html_calendar_files["February"].status = "ok"
    /\ MonthKeys("February") = {"k1"}
    /\ klog = <<<<HtmlYear, "skipped: error">>>>
    /\ ~export_csv[HtmlYear].exists

\* years before the earliest and after the latest season
UnsupportedYears == {EARLIEST_SSO_SEASON_YEAR - 1, LATEST_SSO_SEASON_YEAR + 1}

\* C12: a request that names a year outside the supported range is rejected
\* with the validation error before any year is processed: no key set, no
\* temporary file and no export step exists for it; the key dataframe of such
\* a year, asked for directly, is the validation error too, never a key set.
C12_OutOfRangeYearRejected ==
    /\ (\E i \in 1..Len(years_arg) :
            \/ years_arg[i] < EARLIEST_SSO_SEASON_YEAR
            \/ years_arg[i] > LATEST_SSO_SEASON_YEAR) =>
          /\ kpc = "ValueError"
          /\ calendar_df = {}
          /\ csv_tempfile = NoCsv
          /\ klog = <<>>
    /\ \A y \in UnsupportedYears :
          create_sso_calendar_key_df(y) = [result |-> "ValueError", keys |-> {}]

\* the second run asked for a supported and an unsupported year and was
\* rejected; the CSV of the first run is in place
C12_Witness ==
    /\ kpc = "ValueError"
    /\ kruns = 2
    /\ years_arg = <<2020, 2025>>
    /\ export_csv[HtmlYear].exists
    /\ ~old_file[HtmlYear].exists

\* C13: the CSV at the export path and its dated backup change only in the
\* rename step and the move step of the year being exported, both after the
\* temporary file holds all the sorted keys: the rename step takes an existing
\* CSV to the backup name (replacing the backup of that day), the move step
\* puts the temporary file at the then free export path.  A failed write of the
\* temporary file therefore leaves the existing CSV as it was.
C13_ExportStepOrder ==
    [][\A y \in KeyYears :
          (export_csv'[y] # export_csv[y] \/ old_file'[y] # old_file[y]) =>
              /\ kpc \in {"rename", "move"}
              /\ years_arg[ki] = y
              /\ csv_tempfile = [exists |-> TRUE, content |-> sorted_keys_csv(calendar_df)]
              /\ kpc = "rename" =>
                    /\ export_csv[y].exists
                    /\ \/ /\ export_csv'[y] = NoCsv
                          /\ old_file'[y] = export_csv[y]
                       \/ /\ export_csv'[y] = export_csv[y]
                          /\ old_file'[y] = NoCsv
                          /\ kpc' = "year"
              /\ kpc = "move" =>
                    /\ ~export_csv[y].exists
                    /\ export_csv'[y] = csv_tempfile
                    /\ old_file'[y] = old_file[y]]_vars

\* between the rename and the move of a second export: the temporary file is
\* written, the CSV of the first run carries the backup name, the export path
\* is free
C13_Witness ==
    /\ kpc = "move"
    /\ years_arg[ki] = JsonYear
    /\ csv_tempfile.exists
    /\ csv_tempfile.content # <<>>
    /\ old_file[JsonYear] = csv_tempfile
    /\ ~export_csv[JsonYear].exists

\* C14 as claimed: when a run has ended, every requested year has been either
\* skipped with a log entry or processed.
C14_FailedYearSkippedOthersProcessed ==
    kpc \in {"finished", "TypeError"} =>
        \A i \in 1..Len(years_arg) :
            \E j \in 1..Len(klog) : klog[j][1] = years_arg[i]

----------------------------------------------------------------------------
(* Properties of the concert detail parser *)

\* the number of performance dates the page of a row lists
ListedDates(row) ==
    IF UsesCurrentStrategy(row.year) THEN Len(row.html_content.date_spans)
    ELSE Len(row.html_content.dates)

\* the rows of the written table that carry a key
TableRowsOf(key) == SelectSeq(raw_table.rows, LAMBDA r : r.Key = key)

SameExceptDate(r1, r2) == [r1 EXCEPT !.Date = <<>>] = [r2 EXCEPT !.Date = <<>>]

\* C15 as claimed: in the written table every concert record with N listed
\* dates has exactly N rows, and these rows are equal in title, key, pieces,
\* composers, conductor and artist metadata.
C15_OneRowPerDateSameMetadata ==
    raw_table.exists =>
        \A i \in 1..Len(df_imported_db) :
            LET rows == TableRowsOf(df_imported_db[i].key)
            IN  /\ Len(rows) = ListedDates(df_imported_db[i])
                /\ \A a, b \in 1..Len(rows) : SameExceptDate(rows[a], rows[b])

IsComposerName(dt) ==
    /\ dt # ""
    /\ ~HasGeneralExcludeKeyword(dt)
    /\ ~HasComposerExcludeKeyword(dt)
    /\ dt # "And"

\* an entry of the Program list that sso_parse_repertoire_legacy drops
IsDropped(entry) ==
    IF entry.dt # ""
    THEN \/ HasGeneralExcludeKeyword(entry.dt)
         \/ HasComposerExcludeKeyword(entry.dt)
         \/ entry.dd = "composer"
         \/ HasGeneralExcludeKeyword(entry.dd)
    ELSE HasGeneralExcludeKeyword(entry.dd)

KeptEntries(entries) ==
    SelectSeq([i \in 1..Len(entries) |-> i], LAMBDA i : ~IsDropped(entries[i]))

\* the composer most recently seen at entry i, in document order
MostRecentComposer(entries, i) ==
    LET seen == {j \in 1..i : IsComposerName(entries[j].dt)}
    IN  IF seen = {} THEN DEFAULT_COMPOSER
        ELSE ComposerRegexSub(StrTitle(entries[SetMax(seen)].dt))

CarryForwardExample ==
    <<[dt |-> "BEETHOVEN", dd |-> "Symphony No.5", has_dd |-> TRUE],
      [dt |-> "", dd |-> "", has_dd |-> TRUE]>>

\* C17: in the table written from legacy pages, the composers of a concert
\* are, entry by entry in document order, the composer most recently seen up
\* to that entry of its Program list; for the entries (Symphony No.5,
\* Beethoven), ("", "") the second entry has composer Beethoven and piece
\* Various.
C17_CarryForwardComposer ==
    raw_table.exists =>
        \A i \in 1..Len(df_imported_db) :
            LET row == df_imported_db[i]
                entries == row.html_content.program
                kept == KeptEntries(entries)
            IN  (~UsesCurrentStrategy(row.year) /\ row.html_content.program_h5
                 /\ kept # <<>>) =>
                    \A r \in Range(raw_table.rows) :
                        r.Key = row.key =>
                            /\ r.Composer = [k \in 1..Len(kept) |->
                                                MostRecentComposer(entries, kept[k])]
                            /\ entries = CarryForwardExample =>
                                  /\ r.Composer = <<"Beethoven", "Beethoven">>
                                  /\ r.Piece = <<"Symphony No.5", "Various">>

C17_Witness ==
    /\ raw_table.exists
    /\ Len(df_imported_db) = 1
    /\ df_imported_db[1].html_content.program = CarryForwardExample
    /\ Len(raw_table.rows) = 1
    /\ raw_table.rows[1].Composer = <<"Beethoven", "Beethoven">>
    /\ raw_table.rows[1].Piece = <<"Symphony No.5", "Various">>

\* the number of pieces the first i pairs of a repertoire_data give
PiecesUpTo(data, i) ==
    Cardinality({j \in 1..i : data[j][1] # "" \/ data[j][2] # ""})

DefaultRepertoire == [composers |-> <<"Unknown">>, pieces |-> <<"Various">>]

\* C18: a pair with a composer and an empty piece gives the piece "Various";
\* an empty repertoire_data, a page without a Program section and a Program
\* section without entries give exactly the pair (Various, Unknown).
C18_RepertoireDefaults ==
    /\ rpc = "built" =>
          /\ repertoire_data = <<>> =>
                /\ pieces = <<"Various">>
                /\ composers = <<"Unknown">>
          /\ \A i \in 1..Len(repertoire_data) :
                (repertoire_data[i][1] = "" /\ repertoire_data[i][2] # "") =>
                    pieces[PiecesUpTo(repertoire_data, i)] = "Various"
    /\ sso_parse_repertoire_legacy(NoElements).repertoire = DefaultRepertoire
    /\ sso_parse_repertoire_legacy([NoElements EXCEPT !.program_h5 = TRUE]).repertoire
          = DefaultRepertoire
    /\ sso_parse_repertoire_current(NoElements).repertoire = DefaultRepertoire
    /\ sso_parse_repertoire_current([NoElements EXCEPT !.program_h2 = TRUE]).repertoire
          = DefaultRepertoire

C18_Witness ==
    /\ rpc = "built"
    /\ repertoire_data = << <<"", "Beethoven">> >>
    /\ pieces = <<"Various">>
    /\ composers = <<"Beethoven">>

\* C19 as claimed: the composers and the pieces of a Repertoire have the same
\* length.
C19_ComposersAlignedWithPieces ==
    rpc = "built" => Len(composers) = Len(pieces)

\* a pair that _add_artists turns into at least one artist
QualifiesAsArtist(artist_tuple) ==
    add_artists(<<>>, DEFAULT_CONDUCTOR, artist_tuple) # <<>>

\* a pair that _add_conductor takes the conductor from
MatchesConductorRule(artist_tuple) ==
    \/ HasConductorKeyword(artist_tuple[1])
    \/ HasConductorKeyword(artist_tuple[2])
    \/ HasDirectorKeyword(artist_tuple[1])

\* C20: the artists of an ArtistConductor are never empty; they are exactly
\* (Artist, Unknown) when no pair of artist_data qualifies as an artist; the
\* conductor is Unknown when no pair matches a conductor rule.
C20_ArtistsNeverEmpty ==
    apc = "built" =>
        /\ artists # <<>>
        /\ (\A i \in 1..Len(artist_data) : ~QualifiesAsArtist(artist_data[i]))
              => artists = <<DEFAULT_ARTIST>>
        /\ (\A i \in 1..Len(artist_data) : ~MatchesConductorRule(artist_data[i]))
              => conductor = DEFAULT_CONDUCTOR

\* a conductor and nobody else: the artists are the default
C20_Witness ==
    /\ apc = "built"
    /\ artist_data = << << <<"conductor">>, <<"Simone Young">> >> >>
    /\ conductor = <<"Simone Young">>
    /\ artists = <<DEFAULT_ARTIST>>

\* C21 as claimed: a stored concert never contributes zero rows to a written
\* table; a page on which no performance date is found makes the run fail.
C21_NoConcertSilentlySkipped ==
    raw_table.exists =>
        \A i \in 1..Len(df_imported_db) :
            TableRowsOf(df_imported_db[i].key) # <<>>

\* a pair ("<name>, conductor", <ensemble>)
IsConductorEnsemblePair(artist_tuple) ==
    /\ Len(artist_tuple[1]) = 2
    /\ artist_tuple[1][2] = "conductor"
    /\ IsEnsemble(artist_tuple[2])

NicholasCarterPair ==
    << <<"Nicholas Carter", "conductor">>, <<"Sydney Symphony Orchestra">> >>

IsArtist(artist) == \E k \in 1..Len(artists) : artists[k] = artist

\* C23 as claimed: the single pair ("Nicholas Carter, conductor", "Sydney
\* Symphony Orchestra") gives the conductor "Sydney Symphony Orchestra" and
\* the artist ("Artist", "Sydney Symphony Orchestra").
C23_ConductorIsTheEnsemble ==
    (apc = "built" /\ artist_data = <<NicholasCarterPair>>) =>
        /\ conductor = <<"Sydney Symphony Orchestra">>
        /\ IsArtist(<< <<"Artist">>, <<"Sydney Symphony Orchestra">> >>)

\* C23 amended: a first pair ("<name>, conductor", <ensemble>) gives the
\* conductor <name>, the part before the comma, and the artist ("Artist",
\* <ensemble>); for ("Nicholas Carter, conductor", "Sydney Symphony
\* Orchestra") the conductor is "Nicholas Carter".
C23_ConductorIsTheNameBeforeTheComma ==
    (apc = "built" /\ artist_data # <<>> /\ IsConductorEnsemblePair(artist_data[1])) =>
        /\ conductor = <<artist_data[1][1][1]>>
        /\ IsArtist(<< <<"Artist">>, artist_data[1][2] >>)
        /\ artist_data[1] = NicholasCarterPair => conductor = <<"Nicholas Carter">>

C23_Witness ==
    /\ apc = "built"
    /\ artist_data = <<NicholasCarterPair>>
    /\ conductor = <<"Nicholas Carter">>
    /\ artists[1] = << <<"Artist">>, <<"Sydney Symphony Orchestra">> >>

\* the entries of artist_data that match a conductor rule
ConductorEntries(data) == {i \in 1..Len(data) : MatchesConductorRule(data[i])}

FirstConductorEntry(data) ==
    CHOOSE i \in ConductorEntries(data) : \A j \in ConductorEntries(data) : i <= j

\* the conductor _add_conductor reads from a pair
ConductorOf(artist_tuple) == add_conductor(DEFAULT_CONDUCTOR, artist_tuple)

\* some artist of the object has this name
IsArtistName(name) == \E k \in 1..Len(artists) : artists[k][2] = name

\* C24 as claimed: the first conductor-matching pair gives the conductor and
\* the name of every later conductor-matching pair is in the artist list.
C24_LaterConductorsFoldedIntoArtists ==
    (apc = "built" /\ ConductorEntries(artist_data) # {}) =>
        LET first == FirstConductorEntry(artist_data)
        IN  /\ conductor = ConductorOf(artist_data[first])
            /\ \A j \in ConductorEntries(artist_data) \ {first} :
                  IsArtistName(ConductorOf(artist_data[j]))

\* a conductor-matching pair that _add_artists passes over: not a "-director"
\* pair, not a "conductor, <instrument>" pair, not an ensemble pair
IsPlainConductorPair(artist_tuple) ==
    /\ HasConductorKeyword(artist_tuple[1]) \/ HasConductorKeyword(artist_tuple[2])
    /\ ~IsConductingArtist(artist_tuple[1])
    /\ ~(Len(artist_tuple[1]) > 1 /\ PartLower(artist_tuple[1][1]) = "conductor")
    /\ ~IsEnsemble(artist_tuple[2])

WithoutEntry(data, j) == SubSeq(data, 1, j - 1) \o SubSeq(data, j + 1, Len(data))

\* C24 amended: the first conductor-matching pair gives the conductor, which
\* no later pair replaces; a later conductor-matching pair of the plain form
\* ("conductor", <name>) or (<name>, "<conductor title>") is discarded (the
\* object is the one built without it); a later pair of another form
\* ("<name>, conductor" with an ensemble, "conductor, <instrument>",
\* "-director") has its name in the artist list, unless the artist list was
\* the default artist when the pair was read.
C24_FirstConductorKept ==
    (apc = "built" /\ ConductorEntries(artist_data) # {}) =>
        LET first == FirstConductorEntry(artist_data)
        IN  /\ conductor = ConductorOf(artist_data[first])
            /\ \A j \in ConductorEntries(artist_data) \ {first} :
                  IF IsPlainConductorPair(artist_data[j])
                  THEN ArtistConductor(WithoutEntry(artist_data, j))
                         = [conductor |-> conductor, artists |-> artists]
                  ELSE (\A k \in 1..(j - 1) :
                            add_artists(<<>>, DEFAULT_CONDUCTOR, artist_data[k])
                               # <<DEFAULT_ARTIST>>)
                        => IsArtistName(ConductorOf(artist_data[j]))

\* a second conductor after the first: the first is kept, the second is in
\* no artist
C24_Witness ==
    /\ apc = "built"
    /\ artist_data = <<NicholasCarterPair, << <<"conductor">>, <<"Simone Young">> >> >>
    /\ conductor = <<"Nicholas Carter">>
    /\ ~IsArtistName(<<"Simone Young">>)

\* C25 as claimed: of several ("<name>, conductor", <ensemble>) pairs the
\* conductor of the first is the conductor and is no artist (unless a later
\* pair names the same person); the conductors of the later pairs are
\* artists.
C25_FirstConductorIsNoArtist ==
    (/\ apc = "built"
     /\ artist_data # <<>>
     /\ \A i \in 1..Len(artist_data) : IsConductorEnsemblePair(artist_data[i])) =>
        /\ conductor = <<artist_data[1][1][1]>>
        /\ \A j \in 2..Len(artist_data) :
              IsArtist(<< <<"Conductor">>, <<artist_data[j][1][1]>> >>)
        /\ (\A j \in 2..Len(artist_data) : artist_data[j][1][1] # artist_data[1][1][1])
              => ~IsArtist(<< <<"Conductor">>, <<artist_data[1][1][1]>> >>)

HasExcludeKeyword(s) == HasGeneralExcludeKeyword(s) \/ HasComposerExcludeKeyword(s)

----------------------------------------------------------------------------
(* Further properties of the calendar merge *)

\* C28: merging the merged calendar with the same new calendar again appends
\* nothing: the data list of the second merge is the data list of the first.
C28_MergeAgainAppendsNothing ==
    mpc \in {"merged", "exported"} =>
        LET again == merge_json_calendars(merged_json_content, new_json_file)
        IN  /\ again.ok
            /\ again.content.data = merged_json_content.data

\* two entries of the new calendar were appended by the first merge
C28_Witness ==
    /\ mpc = "merged"
    /\ Len(old_json_file.data) = 1
    /\ Len(new_json_file.data) = 2
    /\ Len(merged_json_content.data) = 3
    /\ merge_json_calendars(merged_json_content, new_json_file).content.data
          = merged_json_content.data

----------------------------------------------------------------------------
(* Further properties of the concert detail parser *)

\* C29 as claimed: the parsers of a 2021 page leave the document of the row
\* unchanged, and called again on it they return the same repertoire and the
\* same artists.
C29_ParsersLeaveDocumentUnchanged ==
    [][ParseDate =>
        LET before == df_imported_db[prow].html_content
            after == df_imported_db'[prow].html_content
        IN  UsesCurrentStrategy(df_imported_db[prow].year) =>
               /\ after = before
               /\ sso_parse_repertoire_current(after).repertoire
                     = sso_parse_repertoire_current(before).repertoire
               /\ sso_parse_artists_current(after).artistconductor
                     = sso_parse_artists_current(before).artistconductor]_vars

----------------------------------------------------------------------------
(* Further properties of the calendar key extractor *)

\* C30 as claimed: when _export_sso_calendar_key_df is left for a year whose
\* CSV existed at the export path when it was called (it is still there, or
\* the rename step of this call has just moved it to the backup name), a CSV
\* exists at the export path.
C30_FailedExportKeepsCsvAtExportPath ==
    [][\A y \in KeyYears :
          (/\ kpc \in {"temp", "rename", "move"}
           /\ kpc' = "year"
           /\ years_arg[ki] = y
           /\ export_csv[y].exists \/ (kpc = "move" /\ old_file[y].exists)) =>
              export_csv'[y].exists]_vars

----------------------------------------------------------------------------
(* Properties of the manual cleaner *)

\* the Composer column of the table handed to fix_composer_name_spellings
ComposersBeforeFix == [i \in 1..Len(SSOClean(sso_raw)) |-> SSOClean(sso_raw)[i].Composer]

\* C22 as claimed: every composer that equals, case-insensitively, the
\* Composer of a row of the map file is replaced by the ComposerFullName of
\* that row, every other composer is unchanged, and applying the map to the
\* result again changes nothing.
C22_NameMapAppliedTwiceIsOnce ==
    cpc = "fixed" =>
        LET map_rows == sso_composer_map_file.rows
        IN  /\ \A i \in 1..Len(sso_cleaned) :
                  \A k \in 1..Len(sso_cleaned[i].Composer) :
                      LET composer == ComposersBeforeFix[i][k]
                      IN  /\ \A r \in MapRowsOf(map_rows, composer) :
                                sso_cleaned[i].Composer[k] = map_rows[r].ComposerFullName
                          /\ MapRowsOf(map_rows, composer) = {}
                                => sso_cleaned[i].Composer[k] = composer
            /\ fix_composer_name_spellings(sso_cleaned, map_rows) = sso_cleaned

\* the full name name_dict holds for a row's key is not itself a key with
\* another full name
IsStableMap(map_rows) ==
    \A r \in 1..Len(map_rows) :
        LET full_name == map_rows[r].ComposerFullName
            again == MapRowsOf(map_rows, full_name)
        IN  r = SetMax(MapRowsOf(map_rows, map_rows[r].Composer)) =>
               (again = {} \/ map_rows[SetMax(again)].ComposerFullName = full_name)

\* C22 amended: a composer that equals, case-insensitively, the Composer of
\* rows of the map file is replaced by the ComposerFullName of the last such
\* row; every other composer and every other column is unchanged; applying
\* the map again changes nothing when no full name in use is itself a key of
\* the map with another full name.
C22_NameMapLastRowWins ==
    cpc = "fixed" =>
        LET map_rows == sso_composer_map_file.rows
            before == SSOClean(sso_raw)
        IN  /\ Len(sso_cleaned) = Len(before)
            /\ \A i \in 1..Len(sso_cleaned) :
                  /\ [sso_cleaned[i] EXCEPT !.Composer = <<>>]
                        = [before[i] EXCEPT !.Composer = <<>>]
                  /\ Len(sso_cleaned[i].Composer) = Len(before[i].Composer)
                  /\ \A k \in 1..Len(before[i].Composer) :
                        LET composer == before[i].Composer[k]
                            found == MapRowsOf(map_rows, composer)
                        IN  sso_cleaned[i].Composer[k] =
                               IF found = {} THEN composer
                               ELSE map_rows[SetMax(found)].ComposerFullName
            /\ IsStableMap(map_rows)
                  => fix_composer_name_spellings(sso_cleaned, map_rows) = sso_cleaned

\* a composer in another case than the key of the map, and one absent from it
C22_Witness ==
    /\ cpc = "fixed"
    /\ sso_composer_map_file.rows =
          <<[Composer |-> "Beethoven", ComposerFullName |-> "Ludwig van Beethoven"]>>
    /\ Len(sso_raw) = 1
    /\ sso_raw[1].Composer = <<"BEETHOVEN", "Mozart">>
    /\ sso_cleaned[1].Composer = <<"Ludwig van Beethoven", "Mozart">>

\* C27 as claimed: cleaning the cleaned table again gives the cleaned table.
C27_CleanerAppliedTwiceIsOnce ==
    cpc = "cleaned" => SSOClean(sso_cleaned) = sso_cleaned

====
